---- MODULE Spec2Model ----
(***************************************************************************)
(* Agent-Memory: chunking -> embedding -> indexing -> retrieval.           *)
(*                                                                         *)
(* Strings are sequences of one-character strings, so that split, trim,    *)
(* replace and concatenation are computed as the code computes them.       *)
(*                                                                         *)
(*   SpecLine  : the greedy line chunker (_simpleChunk)                    *)
(*   SpecAst   : the structural chunker (_visitNode) over syntax trees     *)
(*   SpecScan  : FolderIndexer.getFilesToIndex / validateIndexingOperation *)
(*   Spec      : MemoryService over the vector record store                *)
(*   SpecStore : MemoryService listings and deletions, the reserved path   *)
(*   SpecAdd   : addDocument with failing parser, grammar, parse, embedding*)
(*   SpecChunk : overlapping chunk / loadLanguage calls                    *)
(***************************************************************************)
EXTENDS Integers, Sequences, FiniteSets, TLC

VARIABLES
    \* ---- line chunker run
    lcText, lcMax, lcPc, lcChunks,
    \* ---- structural chunker run
    astLang, astRoot, astMax, astPc, astChunks,
    \* ---- folder scan run
    folder, userOptions, options, scOp, scPc, files, validation,
    \* ---- ChunkingService / MemoryService
    parser, wasmOk, loadedLanguages, currentLanguageId,
    tableDefined, table, nextId, call, ret,
    \* ---- ChunkingService calls in flight (chunk, loadLanguage), by slot
    calls,
    \* ---- history: the rows the last table.delete removed, and the calls the
    \* last operation made on the parser, the embedding pipeline and the store
    removed, effects,
    \* ---- the folder indexing command in progress
    indexing,
    \* ---- EmbeddingService: the static instance and the calls in flight
    embedding

lineVars  == <<lcText, lcMax, lcPc, lcChunks>>
astVars   == <<astLang, astRoot, astMax, astPc, astChunks>>
scanVars  == <<folder, userOptions, options, scOp, scPc, files, validation>>
chunkVars == <<parser, wasmOk, loadedLanguages, currentLanguageId, calls>>
storeVars == <<tableDefined, table, nextId, call, ret, removed, effects>>
indexVars == <<indexing>>
embedVars == <<embedding>>
vars      == <<lineVars, astVars, scanVars, chunkVars, storeVars, indexVars, embedVars>>

(***************************************************************************)
(* Bounds of the model                                                     *)
(***************************************************************************)
MaxTextLen == 4
MaxChunkSize == 3
\* structural chunker: top-level constructs per program, largest size budget
MaxBlocks == 2
MaxAstSize == 6
\* folder scan: largest maxFiles a caller passes
MaxFilesOpt == 2
\* store: record ids ever generated, largest search limit, vector dimension
MaxIds == 3
MaxLimit == 2
Dim == 2
\* embedding service: invocations of the pipeline factory
MaxPipelines == 3

(***************************************************************************)
(* String helpers (JavaScript String methods)                              *)
(***************************************************************************)
LF == "\n"
Whitespace == {" ", LF}
\* the characters texts are drawn from
Alphabet == {"a", "b", " ", LF}

Min(a, b) == IF a <= b THEN a ELSE b

\* all sequences over S of length at most n
SeqsUpTo(S, n) == UNION {[1..k -> S] : k \in 0..n}

RECURSIVE Flatten(_)
Flatten(ss) == IF ss = <<>> THEN <<>> ELSE Head(ss) \o Flatten(Tail(ss))

\* s.trim().length === 0
IsBlank(s) == \A i \in 1..Len(s) : s[i] \in Whitespace

\* s with its trailing whitespace removed
RECURSIVE TrimEnd(_)
TrimEnd(s) ==
    IF s = <<>> THEN <<>>
    ELSE IF s[Len(s)] \in Whitespace THEN TrimEnd(SubSeq(s, 1, Len(s) - 1))
    ELSE s

\* s.split(sep) for a one-character separator: always at least one piece
RECURSIVE SplitFrom(_, _, _)
SplitFrom(s, sep, cur) ==
    IF s = <<>> THEN <<cur>>
    ELSE IF Head(s) = sep THEN <<cur>> \o SplitFrom(Tail(s), sep, <<>>)
    ELSE SplitFrom(Tail(s), sep, Append(cur, Head(s)))

Split(s, sep) == SplitFrom(s, sep, <<>>)

(***************************************************************************)
(* LineChunker: _simpleChunk                                               *)
(***************************************************************************)
\* a loop that flushes the buffer only once it has grown past maxSize
RECURSIVE SimpleChunkLoopLate(_, _, _, _, _)
SimpleChunkLoopLate(lines, i, maxSize, currentChunk, chunks) ==
    IF i > Len(lines) THEN <<chunks, currentChunk>>
    ELSE IF Len(currentChunk) > maxSize
         THEN SimpleChunkLoopLate(lines, i + 1, maxSize, lines[i] \o <<LF>>,
                                  Append(chunks, currentChunk))
         ELSE SimpleChunkLoopLate(lines, i + 1, maxSize,
                                  currentChunk \o lines[i] \o <<LF>>, chunks)

\* the for-loop of _simpleChunk from line i on; returns <<chunks, currentChunk>>
RECURSIVE SimpleChunkLoop(_, _, _, _, _)
SimpleChunkLoop(lines, i, maxSize, currentChunk, chunks) ==
    IF i > Len(lines) THEN <<chunks, currentChunk>>
    ELSE IF Len(currentChunk) + Len(lines[i]) > maxSize /\ Len(currentChunk) > 0
         THEN SimpleChunkLoop(lines, i + 1, maxSize, lines[i] \o <<LF>>,
                              Append(chunks, currentChunk))
         ELSE SimpleChunkLoop(lines, i + 1, maxSize, currentChunk \o lines[i] \o <<LF>>,
                              chunks)

\* the flush after the loop: a remaining buffer that is not whitespace-only
SimpleChunkFlush(looped) ==
    IF ~IsBlank(looped[2]) THEN Append(looped[1], looped[2]) ELSE looped[1]

\* a chunker that loses the buffer it flushes in the middle of the text
SimpleChunkDropping(text, maxSize) ==
    LET looped == SimpleChunkLoop(Split(text, LF), 1, maxSize, <<>>, <<>>)
        chunks == IF ~IsBlank(looped[2]) THEN <<looped[2]>> ELSE <<>>
    IN  IF Len(chunks) > 0 THEN chunks ELSE <<text>>

\* ChunkingService._simpleChunk
SimpleChunk(text, maxSize) ==
    LET chunks == SimpleChunkFlush(SimpleChunkLoop(Split(text, LF), 1, maxSize, <<>>, <<>>))
    IN  IF Len(chunks) > 0 THEN chunks ELSE <<text>>

\* MemoryService._simpleChunk (the same code, a second copy)
MemorySimpleChunk(text, maxSize) ==
    LET chunks == SimpleChunkFlush(SimpleChunkLoop(Split(text, LF), 1, maxSize, <<>>, <<>>))
    IN  IF Len(chunks) > 0 THEN chunks ELSE <<text>>

(***************************************************************************)
(* StructuralChunker: LANGUAGE_CONFIG, the syntax trees of its grammars,   *)
(* _visitNode                                                              *)
(***************************************************************************)
\* the keys of LANGUAGE_CONFIG
LANGUAGE_CONFIG == {"typescript", "typescriptreact", "python", "c", "cpp", "bash"}

\* isLanguageSupported: languageId in LANGUAGE_CONFIG
IsLanguageSupported(languageId) == languageId \in LANGUAGE_CONFIG

\* the node types _visitNode takes for block-level constructs
BlockTypes == {"function_declaration", "class_declaration", "method_definition"}

\* the source constructs a language has (C and Bash have no classes or methods)
LangConstructs(lang) ==
    IF lang \in {"c", "bash"} THEN {"function"} ELSE {"function", "class", "method"}

\* the node type the grammar loaded for `lang` gives to a source construct
GrammarNodeType(lang, construct) ==
    CASE construct = "function" ->
            IF lang \in {"typescript", "typescriptreact"} THEN "function_declaration"
            ELSE "function_definition"
      [] construct = "class" ->
            IF lang \in {"typescript", "typescriptreact"} THEN "class_declaration"
            ELSE IF lang = "python" THEN "class_definition"
            ELSE "class_specifier"
      [] construct = "method" ->
            IF lang \in {"typescript", "typescriptreact"} THEN "method_definition"
            ELSE "function_definition"
      [] construct = "statement" ->
            IF lang = "bash" THEN "command" ELSE "expression_statement"
      [] construct = "program" ->
            IF lang = "python" THEN "module"
            ELSE IF lang \in {"c", "cpp"} THEN "translation_unit"
            ELSE "program"
      [] OTHER -> "identifier"

\* texts of sibling nodes, separated by one space in the source
RECURSIVE JoinTexts(_)
JoinTexts(nodes) ==
    IF nodes = <<>> THEN <<>>
    ELSE IF Len(nodes) = 1 THEN nodes[1].text
    ELSE nodes[1].text \o <<" ">> \o JoinTexts(Tail(nodes))

\* a leaf of the syntax tree
Leaf(t) == [construct |-> "token", type |-> "identifier", text |-> t,
            children |-> <<>>]

\* an inner node: its text is the source span of its children
Node(lang, construct, children) ==
    [construct |-> construct, type |-> GrammarNodeType(lang, construct),
     text |-> JoinTexts(children), children |-> children]

\* the top-level items programs are made of
AstItems(lang) ==
    {Node(lang, "statement", <<Leaf(<<"s">>)>>),
     Node(lang, "function", <<Leaf(<<"f">>), Leaf(<<"x">>)>>)}
    \cup (IF "class" \in LangConstructs(lang)
          THEN {Node(lang, "class",
                     <<Leaf(<<"c">>), Node(lang, "method", <<Leaf(<<"m">>), Leaf(<<"y">>)>>)>>)}
          ELSE {})

\* the trees the parser returns for programs of 1..MaxBlocks top-level items
AstPrograms(lang) ==
    {Node(lang, "program", items) :
        items \in UNION {[1..k -> AstItems(lang)] : k \in 1..MaxBlocks}}

\* _visitNode: the chunks it pushes for `node`, in order
RECURSIVE VisitNode(_, _)
VisitNode(node, maxSize) ==
    LET isBlock == node.type \in BlockTypes
        content == node.text
    IN  IF isBlock /\ Len(content) <= maxSize THEN <<content>>
        ELSE IF Len(node.children) > 0
             THEN Flatten([i \in 1..Len(node.children) |->
                              VisitNode(node.children[i], maxSize)])
        ELSE IF ~IsBlank(content) THEN <<content>>
        ELSE <<>>

(***************************************************************************)
(* FolderIndexer: options, glob translation, getFilesToIndex,              *)
(* validateIndexingOperation                                               *)
(***************************************************************************)
\* an optional value: None is JavaScript's undefined / an absent key
None == <<>>
Some(v) == <<v>>

OptionKeys == {"maxFileSize", "excludePatterns", "includeExtensions", "maxFiles"}

DEFAULT_OPTIONS ==
    [maxFileSize |-> Some(1 * 1024 * 1024),
     excludePatterns |-> Some(
        <<<<"*", "*", "/", "n", "o", "d", "e", "_", "m", "o", "d", "u", "l", "e", "s", "/", "*", "*">>,
          <<"*", "*", "/", "d", "i", "s", "t", "/", "*", "*">>,
          <<"*", "*", "/", "b", "u", "i", "l", "d", "/", "*", "*">>,
          <<"*", "*", "/", ".", "g", "i", "t", "/", "*", "*">>,
          <<"*", "*", "/", ".", "v", "s", "c", "o", "d", "e", "/", "*", "*">>,
          <<"*", "*", "/", "c", "o", "v", "e", "r", "a", "g", "e", "/", "*", "*">>,
          <<"*", "*", "/", "*", ".", "m", "i", "n", ".", "j", "s">>,
          <<"*", "*", "/", "*", ".", "b", "u", "n", "d", "l", "e", ".", "j", "s">>,
          <<"*", "*", "/", "*", ".", "m", "a", "p">>>>),
     includeExtensions |-> Some(
        <<<<".", "t", "s">>,
          <<".", "t", "s", "x">>,
          <<".", "j", "s">>,
          <<".", "j", "s", "x">>,
          <<".", "p", "y">>,
          <<".", "j", "a", "v", "a">>,
          <<".", "c">>,
          <<".", "c", "p", "p">>,
          <<".", "h">>,
          <<".", "g", "o">>,
          <<".", "r", "s">>,
          <<".", "r", "b">>,
          <<".", "p", "h", "p">>,
          <<".", "c", "s">>,
          <<".", "s", "w", "i", "f", "t">>,
          <<".", "k", "t">>>>),
     maxFiles |-> Some(500)]

\* { ...base, ...obj } where obj has the keys `present`: a present key overrides
\* the base value even when its value is undefined
Spread(base, obj, present) ==
    [k \in OptionKeys |-> IF k \in present THEN obj[k] ELSE base[k]]

\* the keys a caller's Partial<IndexingOptions> holds
PresentKeys(opt) == {k \in OptionKeys : opt[k] # None}

\* getFilesToIndex: { ...DEFAULT_OPTIONS, ...userOptions, ...options }; userOptions
\* is built with all four keys, each the value config.get returned
ScanOpts(user, opt) ==
    Spread(Spread(DEFAULT_OPTIONS, user, OptionKeys), opt, PresentKeys(opt))

\* validateIndexingOperation: { ...DEFAULT_OPTIONS, ...options }
ValidateOpts(opt) == Spread(DEFAULT_OPTIONS, opt, PresentKeys(opt))

\* the folder being indexed
FolderPath == <<"/", "w">>

EndsWith(s, suffix) ==
    /\ Len(suffix) <= Len(s)
    /\ SubSeq(s, Len(s) - Len(suffix) + 1, Len(s)) = suffix

StartsWith(s, prefix) ==
    /\ Len(prefix) <= Len(s)
    /\ SubSeq(s, 1, Len(prefix)) = prefix

\* path.relative(basePath, filePath) for a file under basePath
Relative(basePath, filePath) ==
    IF StartsWith(filePath, basePath \o <<"/">>)
    THEN SubSeq(filePath, Len(basePath) + 2, Len(filePath))
    ELSE filePath

\* s.replace(/\*\*/g, '.*')
RECURSIVE ReplaceDoubleStar(_)
ReplaceDoubleStar(s) ==
    IF s = <<>> THEN <<>>
    ELSE IF Len(s) >= 2 /\ s[1] = "*" /\ s[2] = "*"
         THEN <<".", "*">> \o ReplaceDoubleStar(SubSeq(s, 3, Len(s)))
    ELSE <<Head(s)>> \o ReplaceDoubleStar(Tail(s))

\* s.replace(/\*/g, '[^/]*')
RECURSIVE ReplaceStar(_)
ReplaceStar(s) ==
    IF s = <<>> THEN <<>>
    ELSE IF Head(s) = "*" THEN <<"[", "^", "/", "]", "*">> \o ReplaceStar(Tail(s))
    ELSE <<Head(s)>> \o ReplaceStar(Tail(s))

\* new RegExp(source), for sources made of literal characters, '.', '.*' and
\* '[^/]*': the sequence of its terms
RECURSIVE RegExp(_)
RegExp(src) ==
    IF src = <<>> THEN <<>>
    ELSE IF StartsWith(src, <<"[", "^", "/", "]", "*">>)
         THEN <<[kind |-> "notSlashStar"]>> \o RegExp(SubSeq(src, 6, Len(src)))
    ELSE IF StartsWith(src, <<".", "*">>)
         THEN <<[kind |-> "anyStar"]>> \o RegExp(SubSeq(src, 3, Len(src)))
    ELSE IF Head(src) = "."
         THEN <<[kind |-> "any"]>> \o RegExp(Tail(src))
    ELSE <<[kind |-> "char", char |-> Head(src)]>> \o RegExp(Tail(src))

\* the terms from ti on match s from position si on; `anchored`: up to its end
RECURSIVE MatchAt(_, _, _, _, _)
MatchAt(re, ti, s, si, anchored) ==
    IF ti > Len(re) THEN (~anchored \/ si > Len(s))
    ELSE LET t == re[ti] IN
         CASE t.kind = "char" ->
                si <= Len(s) /\ s[si] = t.char /\ MatchAt(re, ti + 1, s, si + 1, anchored)
           [] t.kind = "any" ->
                si <= Len(s) /\ s[si] # LF /\ MatchAt(re, ti + 1, s, si + 1, anchored)
           [] t.kind = "notSlashStar" ->
                \/ MatchAt(re, ti + 1, s, si, anchored)
                \/ si <= Len(s) /\ s[si] # "/" /\ MatchAt(re, ti, s, si + 1, anchored)
           [] t.kind = "anyStar" ->
                \/ MatchAt(re, ti + 1, s, si, anchored)
                \/ si <= Len(s) /\ s[si] # LF /\ MatchAt(re, ti, s, si + 1, anchored)

\* regex.test(s): the expression matches somewhere in s
RegexTest(re, s) == \E si \in 1..(Len(s) + 1) : MatchAt(re, 1, s, si, FALSE)

\* FolderIndexer.matchesPattern
MatchesPattern(filePath, basePath, pattern) ==
    LET relativePath == Relative(basePath, filePath)
        normalizedPattern == ReplaceStar(ReplaceDoubleStar(pattern))
        regex == RegExp(normalizedPattern)
    IN  RegexTest(regex, relativePath)

\* vscode.workspace.findFiles('**/*' + ext): the files of the folder, at any
\* depth, whose name ends with ext, in listing order
FindFiles(dir, ext) == SelectSeq(dir, LAMBDA f : EndsWith(f.path, ext))

\* excludeGlobs.some(glob => matchesPattern(filePath, folderPath, glob.pattern))
ShouldExclude(filePath, opts) ==
    \E i \in 1..Len(opts.excludePatterns[1]) :
        MatchesPattern(filePath, FolderPath, opts.excludePatterns[1][i])

\* a size check that lets a file through when its stat fails
SizeAcceptedWithoutStat(f, opts) ==
    ~(f.size # None /\ opts.maxFileSize # None /\ f.size[1] > opts.maxFileSize[1])

\* the size check: stat must succeed, and stat.size > opts.maxFileSize skips the
\* file (a comparison with undefined is false)
SizeAccepted(f, opts) ==
    /\ f.size # None
    /\ ~(opts.maxFileSize # None /\ f.size[1] > opts.maxFileSize[1])

\* files.length >= opts.maxFiles (false when maxFiles is undefined)
MaxFilesReached(accepted, opts) ==
    opts.maxFiles # None /\ Len(accepted) >= opts.maxFiles[1]

\* the inner loop over foundFiles from index j on
RECURSIVE ScanFound(_, _, _, _)
ScanFound(found, j, accepted, opts) ==
    IF j > Len(found) THEN accepted
    ELSE IF ShouldExclude(found[j].path, opts) THEN ScanFound(found, j + 1, accepted, opts)
    ELSE IF ~SizeAccepted(found[j], opts) THEN ScanFound(found, j + 1, accepted, opts)
    ELSE LET pushed == Append(accepted, found[j].path)
         IN  IF MaxFilesReached(pushed, opts) THEN pushed
             ELSE ScanFound(found, j + 1, pushed, opts)

\* the outer loop over opts.includeExtensions from index i on
RECURSIVE ScanExtensions(_, _, _, _)
ScanExtensions(dir, i, accepted, opts) ==
    IF i > Len(opts.includeExtensions[1]) THEN accepted
    ELSE LET after == ScanFound(FindFiles(dir, opts.includeExtensions[1][i]), 1,
                                accepted, opts)
         IN  IF MaxFilesReached(after, opts) THEN after
             ELSE ScanExtensions(dir, i + 1, after, opts)

\* FolderIndexer.getFilesToIndex; an undefined excludePatterns (.map) or
\* includeExtensions (for-of) is a TypeError
GetFilesToIndex(dir, user, opt) ==
    LET opts == ScanOpts(user, opt)
    IN  IF opts.excludePatterns = None \/ opts.includeExtensions = None
        THEN [threw |-> TRUE, files |-> <<>>]
        ELSE [threw |-> FALSE, files |-> ScanExtensions(dir, 1, <<>>, opts)]

\* FolderIndexer.validateIndexingOperation (the message is kept as its kind)
ValidateIndexingOperation(dir, user, opt) ==
    LET scanned == GetFilesToIndex(dir, user, opt)
        opts == ValidateOpts(opt)
        n == Len(scanned.files)
    IN  IF scanned.threw THEN [threw |-> TRUE, valid |-> FALSE, message |-> "", fileCount |-> 0]
        ELSE IF n = 0
             THEN [threw |-> FALSE, valid |-> FALSE, message |-> "No files found", fileCount |-> 0]
        ELSE IF n > opts.maxFiles[1]
             THEN [threw |-> FALSE, valid |-> FALSE, message |-> "Too many files", fileCount |-> n]
        ELSE [threw |-> FALSE, valid |-> TRUE, message |-> "Ready to index", fileCount |-> n]

(***************************************************************************)
(* ChunkingService: loadLanguage, parse, chunk                             *)
(***************************************************************************)
\* the maximal runs of non-whitespace characters of code, in order
RECURSIVE TokensFrom(_, _)
TokensFrom(code, cur) ==
    IF code = <<>> THEN (IF cur = <<>> THEN <<>> ELSE <<cur>>)
    ELSE IF Head(code) \in Whitespace
         THEN (IF cur = <<>> THEN <<>> ELSE <<cur>>) \o TokensFrom(Tail(code), <<>>)
    ELSE TokensFrom(Tail(code), Append(cur, Head(code)))

\* this.parser.parse(code) with the grammar of `lang` active: a root node
\* spanning the code, whose children are the tokens of the code
Parse(code, lang) ==
    LET tokens == TokensFrom(code, <<>>)
    IN  [construct |-> "program", type |-> GrammarNodeType(lang, "program"),
         text |-> code, children |-> [i \in 1..Len(tokens) |-> Leaf(tokens[i])]]

\* a call the services make on the parser, the embedding pipeline or the
\* store: its name, the language it concerns ("" when none), the record id it
\* names (empty when none) and the number of records it carries (0 when none)
Eff(op) == [op |-> op, lang |-> "", id |-> <<>>, n |-> 0]
EffLang(op, lang) == [op |-> op, lang |-> lang, id |-> <<>>, n |-> 0]
EffId(op, id) == [op |-> op, lang |-> "", id |-> id, n |-> 0]
EffCount(op, n) == [op |-> op, lang |-> "", id |-> <<>>, n |-> n]

\* ChunkingService.loadLanguage on the service state cs = [parser, loaded,
\* current], run without another call in between; wasm: the languages whose
\* grammar file loads
LoadLanguage(cs, wasm, languageId) ==
    IF ~cs.parser THEN [ok |-> FALSE, cs |-> cs, effects |-> <<>>]
    ELSE IF languageId \in cs.loaded
         THEN [ok |-> TRUE, cs |-> [cs EXCEPT !.current = Some(languageId)],
               effects |-> <<EffLang("setLanguage", languageId)>>]
    ELSE IF languageId \notin LANGUAGE_CONFIG THEN [ok |-> FALSE, cs |-> cs, effects |-> <<>>]
    ELSE IF languageId \in wasm
         THEN [ok |-> TRUE,
               cs |-> [cs EXCEPT !.loaded = @ \cup {languageId},
                                 !.current = Some(languageId)],
               effects |-> <<EffLang("Language.load", languageId),
                             EffLang("setLanguage", languageId)>>]
    ELSE [ok |-> FALSE, cs |-> cs,
          effects |-> <<EffLang("Language.load", languageId), Eff("console.error")>>]

\* the try block of chunk once loadLanguage returned true: parse with the
\* grammar that is active, visit the tree; a parse that throws, or a traversal
\* that pushes nothing, gives None (the fallback is taken)
ParseAndVisit(code, grammar, maxChunkSize, parseThrows) ==
    IF parseThrows THEN None
    ELSE LET chunks == VisitNode(Parse(code, grammar), maxChunkSize)
         IN  IF Len(chunks) > 0 THEN Some(chunks) ELSE None

\* a chunk that lets the error of a throwing parse reach its caller
ChunkRethrowing(cs, wasm, code, languageId, maxChunkSize, parseThrows) ==
    IF cs.parser /\ languageId # None
    THEN LET l == LoadLanguage(cs, wasm, languageId[1])
         IN  IF l.ok
             THEN LET visited == ParseAndVisit(code, l.cs.current[1], maxChunkSize, parseThrows)
                      eff == l.effects \o <<EffLang("parse", l.cs.current[1])>>
                                      \o (IF parseThrows THEN <<Eff("console.error")>> ELSE <<>>)
                  IN  IF visited # None
                      THEN [chunks |-> visited[1], cs |-> l.cs, effects |-> eff, threw |-> FALSE]
                      ELSE [chunks |-> <<>>, cs |-> l.cs, effects |-> eff, threw |-> parseThrows]
             ELSE [chunks |-> SimpleChunk(code, maxChunkSize), cs |-> l.cs,
                   effects |-> l.effects, threw |-> FALSE]
    ELSE [chunks |-> SimpleChunk(code, maxChunkSize), cs |-> cs, effects |-> <<>>,
          threw |-> FALSE]

\* ChunkingService.chunk(code, languageId, maxChunkSize), run without another
\* call in between; languageId is None when the argument is absent;
\* parseThrows: this.parser.parse throws
Chunk(cs, wasm, code, languageId, maxChunkSize, parseThrows) ==
    IF cs.parser /\ languageId # None
    THEN LET l == LoadLanguage(cs, wasm, languageId[1])
         IN  IF l.ok
             THEN LET visited == ParseAndVisit(code, l.cs.current[1], maxChunkSize, parseThrows)
                      eff == l.effects \o <<EffLang("parse", l.cs.current[1])>>
                                      \o (IF parseThrows THEN <<Eff("console.error")>> ELSE <<>>)
                  IN  IF visited # None
                      THEN [chunks |-> visited[1], cs |-> l.cs, effects |-> eff, threw |-> FALSE]
                      ELSE [chunks |-> SimpleChunk(code, maxChunkSize), cs |-> l.cs,
                            effects |-> eff, threw |-> FALSE]
             ELSE [chunks |-> SimpleChunk(code, maxChunkSize), cs |-> l.cs,
                   effects |-> l.effects, threw |-> FALSE]
    ELSE [chunks |-> SimpleChunk(code, maxChunkSize), cs |-> cs, effects |-> <<>>,
          threw |-> FALSE]

(***************************************************************************)
(* EmbeddingService and the vector record store                            *)
(***************************************************************************)
Count(s, c) == Cardinality({k \in 1..Len(s) : s[k] = c})

\* the characters whose counts make up an embedding vector
EmbedChars == <<"a", "b", " ", LF>>

\* EmbeddingService.getEmbedding: a fixed function from text to a vector
GetEmbedding(text) ==
    [i \in 1..Dim |-> Count(text, EmbedChars[((i - 1) % Len(EmbedChars)) + 1])]

RECURSIVE SumTo(_, _)
SumTo(f, n) == IF n = 0 THEN 0 ELSE f[n] + SumTo(f, n - 1)

\* squared L2 distance, the store's default metric
Distance(v, w) == SumTo([i \in 1..Dim |-> (v[i] - w[i]) * (v[i] - w[i])], Dim)

\* the record createTable is given: { vector: Array(384).fill(0), text: "init",
\* filepath: "init", id: "0" }
InitPath == <<"i", "n", "i", "t">>
Sentinel == [vector |-> [i \in 1..Dim |-> 0], text |-> InitPath,
             filepath |-> InitPath, id |-> <<"0">>]

\* filepath.replace(/'/g, "''")
RECURSIVE EscapeQuotes(_)
EscapeQuotes(s) ==
    IF s = <<>> THEN <<>>
    ELSE IF Head(s) = "'" THEN <<"'", "'">> \o EscapeQuotes(Tail(s))
    ELSE <<Head(s)>> \o EscapeQuotes(Tail(s))

\* a predicate built without escaping the value
FilepathPredicateUnescaped(filepath) ==
    [column |-> "filepath", literal |-> <<"'">> \o filepath \o <<"'">>]

\* `filepath = '${filepath.replace(/'/g, "''")}'`: the column and the quoted
\* literal as it stands in the predicate text
FilepathPredicate(filepath) ==
    [column |-> "filepath", literal |-> <<"'">> \o EscapeQuotes(filepath) \o <<"'">>]

\* the store reads the text after the opening quote of a string literal: ''
\* is one quote, a single ' ends the literal and must end the predicate;
\* None is a syntax error
RECURSIVE SqlLiteralBody(_, _)
SqlLiteralBody(s, acc) ==
    IF s = <<>> THEN None
    ELSE IF Head(s) = "'"
         THEN IF Len(s) >= 2 /\ s[2] = "'"
              THEN SqlLiteralBody(SubSeq(s, 3, Len(s)), Append(acc, "'"))
              ELSE IF Len(s) = 1 THEN Some(acc) ELSE None
    ELSE SqlLiteralBody(Tail(s), Append(acc, Head(s)))

SqlLiteral(src) ==
    IF src = <<>> \/ Head(src) # "'" THEN None ELSE SqlLiteralBody(Tail(src), <<>>)

\* a delete whose predicate matches every value that starts with the literal
TableDeletePrefix(rows, predicate) ==
    LET value == SqlLiteral(predicate.literal)
    IN  IF value = None THEN [threw |-> TRUE, rows |-> rows]
        ELSE [threw |-> FALSE,
              rows |-> SelectSeq(rows, LAMBDA r : ~StartsWith(r[predicate.column], value[1]))]

\* table.delete(predicate): the rows kept; threw when the predicate does not
\* parse
TableDelete(rows, predicate) ==
    LET value == SqlLiteral(predicate.literal)
    IN  IF value = None THEN [threw |-> TRUE, rows |-> rows]
        ELSE [threw |-> FALSE,
              rows |-> SelectSeq(rows, LAMBDA r : r[predicate.column] # value[1])]

\* the ways to list n of the rows `remaining` (indexes), nearest first by the
\* distances d; rows at equal distance come in any order
RECURSIVE NearestFirst(_, _, _)
NearestFirst(remaining, d, n) ==
    IF n = 0 \/ remaining = {} THEN {<<>>}
    ELSE LET nearest == {i \in remaining : \A k \in remaining : d[i] <= d[k]}
         IN  UNION {{<<i>> \o rest : rest \in NearestFirst(remaining \ {i}, d, n - 1)} :
                        i \in nearest}

\* table.search(queryVector).limit(limit).toArray(): the limit nearest rows,
\* nearest first
TableSearch(rows, queryVector, limit) ==
    LET d == [i \in 1..Len(rows) |-> Distance(rows[i].vector, queryVector)]
    IN  {[k \in 1..Len(p) |-> rows[p[k]]] : p \in NearestFirst(1..Len(rows), d, limit)}

(***************************************************************************)
(* Idle values: the variables of the runs a specification does not make    *)
(***************************************************************************)
LineIdle == lcText = <<>> /\ lcMax = 0 /\ lcPc = "idle" /\ lcChunks = <<>>

AstIdle == astLang = "" /\ astRoot = <<>> /\ astMax = 0 /\ astPc = "idle"
           /\ astChunks = <<>>

ScanIdle == folder = <<>> /\ userOptions = <<>> /\ options = <<>> /\ scOp = ""
            /\ scPc = "idle" /\ files = <<>> /\ validation = <<>>

ChunkIdle == parser = FALSE /\ wasmOk = {} /\ loadedLanguages = {}
             /\ currentLanguageId = None /\ calls = <<>>

StoreIdle == tableDefined = FALSE /\ table = <<>> /\ nextId = 1 /\ call = <<>>
             /\ ret = <<>> /\ removed = {} /\ effects = <<>>

IndexIdle == indexing = <<>>

EmbedIdle == embedding = <<>>

(***************************************************************************)
(* SpecLine: one call of the line chunker on a drawn text and budget       *)
(***************************************************************************)
LineInit ==
    /\ lcText \in SeqsUpTo(Alphabet, MaxTextLen)
    /\ lcMax \in 0..MaxChunkSize
    /\ lcPc = "call"
    /\ lcChunks = <<>>

\* both copies of _simpleChunk applied to the same arguments
LineChunk ==
    /\ lcPc = "call"
    /\ lcChunks' = [chunking |-> SimpleChunk(lcText, lcMax),
                    memory   |-> MemorySimpleChunk(lcText, lcMax)]
    /\ lcPc' = "done"
    /\ UNCHANGED <<lcText, lcMax, astVars, scanVars, chunkVars, storeVars, indexVars, embedVars>>

LineNext == LineChunk

\* the input text followed by one line break is the concatenation of line + LF
\* over all lines; `out` keeps the content when it is that text, or the part of it
\* before a whitespace-only tail
ContentKept(text, out) ==
    LET full == text \o <<LF>>
    IN  \/ out = text
        \/ /\ Len(out) <= Len(full)
           /\ SubSeq(full, 1, Len(out)) = out
           /\ IsBlank(SubSeq(full, Len(out) + 1, Len(full)))

\* C8: LineChunker never drops non-whitespace content: the chunks concatenated in
\* order are the input lines in input order, each once, and equal the original
\* text up to trailing whitespace / line-break normalisation (both copies).
C8_LineChunkerKeepsContent ==
    lcPc = "done" =>
        \A copy \in {"chunking", "memory"} :
            /\ ContentKept(lcText, Flatten(lcChunks[copy]))
            /\ TrimEnd(Flatten(lcChunks[copy])) = TrimEnd(lcText)

\* a text split into several chunks whose whitespace-only last buffer was dropped
C8_Witness ==
    /\ lcPc = "done"
    /\ Len(lcChunks.chunking) >= 2
    /\ ~IsBlank(lcChunks.chunking[2])
    /\ Len(Flatten(lcChunks.chunking)) <= Len(lcText)

\* C26: for every empty or whitespace-only text, whatever its length and its
\* number of lines, LineChunker returns exactly one chunk, the original text
\* (both copies).
C26_BlankTextIsOneChunk ==
    (lcPc = "done" /\ IsBlank(lcText)) =>
        \A copy \in {"chunking", "memory"} : lcChunks[copy] = <<lcText>>

\* the input lines a chunk of the loop holds: each line of the chunk is
\* followed by a line break
ChunkLines(c) ==
    Split(IF c # <<>> /\ c[Len(c)] = LF THEN SubSeq(c, 1, Len(c) - 1) ELSE c, LF)

\* the call returned the text itself because the loop and the flush produced
\* no chunk
FellBack(text, maxSize) ==
    SimpleChunkFlush(SimpleChunkLoop(Split(text, LF), 1, maxSize, <<>>, <<>>)) = <<>>

\* C27: a chunk that holds more than one input line is at most maxSize + 1 long;
\* a chunk is longer only when it is a single input line itself longer than
\* maxSize; the only chunk that can be empty is the empty text returned as it
\* is (both copies).
C27_ChunkSizeBound ==
    lcPc = "done" =>
        \A copy \in {"chunking", "memory"} :
            \A i \in 1..Len(lcChunks[copy]) :
                LET c == lcChunks[copy][i]
                    lines == IF FellBack(lcText, lcMax) THEN Split(lcText, LF)
                             ELSE ChunkLines(c)
                IN  /\ Len(lines) > 1 => Len(c) <= lcMax + 1
                    /\ Len(c) > lcMax + 1 => Len(lines) = 1 /\ Len(lines[1]) > lcMax
                    /\ c = <<>> => lcText = <<>> /\ lcChunks[copy] = <<lcText>>

\* a text was cut into a chunk of two lines that fills the budget and its line
\* break, and a chunk that is one line longer than the budget
C27_Witness ==
    /\ lcPc = "done"
    /\ Len(lcChunks.chunking) = 2
    /\ Len(ChunkLines(lcChunks.chunking[1])) = 2
    /\ Len(lcChunks.chunking[1]) = lcMax + 1
    /\ Len(lcChunks.chunking[2]) > lcMax + 1

(***************************************************************************)
(* SpecAst: one traversal of a parsed program of a supported language      *)
(***************************************************************************)
AstInit ==
    /\ astLang \in LANGUAGE_CONFIG
    /\ astRoot \in AstPrograms(astLang)
    /\ astMax \in 0..MaxAstSize
    /\ astPc = "call"
    /\ astChunks = <<>>

\* chunk(): this._visitNode(tree.rootNode, chunks, maxChunkSize)
AstVisit ==
    /\ astPc = "call"
    /\ astChunks' = VisitNode(astRoot, astMax)
    /\ astPc' = "done"
    /\ UNCHANGED <<astLang, astRoot, astMax, lineVars, scanVars, chunkVars, storeVars, indexVars, embedVars>>

AstNext == AstVisit

\* the traversal the claim describes: a function, method or class construct that
\* fits the budget is one chunk, its full text; every other node as _visitNode
RECURSIVE ConstructChunks(_, _)
ConstructChunks(node, maxSize) ==
    IF node.construct \in {"function", "method", "class"} /\ Len(node.text) <= maxSize
    THEN <<node.text>>
    ELSE IF Len(node.children) > 0
         THEN Flatten([i \in 1..Len(node.children) |->
                          ConstructChunks(node.children[i], maxSize)])
    ELSE IF ~IsBlank(node.text) THEN <<node.text>>
    ELSE <<>>

\* C9: for every language of LANGUAGE_CONFIG, a function, method or class
\* construct whose text fits maxSize is emitted as exactly one chunk equal to its
\* full text, not descended into and not merged with a sibling.
C9_BlockIsOneChunk ==
    astPc = "done" => astChunks = ConstructChunks(astRoot, astMax)

(***************************************************************************)
(* SpecScan: one getFilesToIndex or validateIndexingOperation call on a    *)
(* drawn folder, settings and caller options                               *)
(***************************************************************************)
\* the files a folder may hold, in listing order: path under the folder, and the
\* sizes stat may report for it (None: stat fails)
FileUniverse ==
    <<[rel |-> <<"a", ".", "t", "s">>, sizes |-> {Some(1), Some(2), None}],
      [rel |-> <<"s", "r", "c", "/", "b", ".", "t", "s">>, sizes |-> {Some(1), Some(2), None}],
      [rel |-> <<"s", "r", "c", "/", "a", "/", "b", "/", "c", ".", "t", "s">>, sizes |-> {Some(1)}],
      [rel |-> <<"s", "r", "c", "/", "n", "o", "d", "e", "_", "m", "o", "d", "u", "l", "e", "s", "/", "x", ".", "j", "s">>, sizes |-> {Some(1)}]>>

\* the folder holding the files `present`, with the sizes `size`
FolderOf(present, size) ==
    LET idx == SelectSeq([i \in 1..Len(FileUniverse) |-> i], LAMBDA i : i \in present)
    IN  [k \in 1..Len(idx) |->
            [path |-> FolderPath \o <<"/">> \o FileUniverse[idx[k]].rel,
             size |-> size[idx[k]]]]

Folders ==
    {FolderOf(present, size) :
        present \in SUBSET (1..Len(FileUniverse)),
        size \in {sz \in [1..Len(FileUniverse) -> {Some(1), Some(2), None}] :
                    \A i \in 1..Len(FileUniverse) : sz[i] \in FileUniverse[i].sizes}}

\* what config.get returns for the four agentMemory.indexing settings: nothing
\* set, the defaults, or a user who set maxFiles
UserSettings ==
    {[k \in OptionKeys |-> None],
     DEFAULT_OPTIONS,
     [DEFAULT_OPTIONS EXCEPT !.maxFiles = Some(1)]}

\* the options a caller passes (None: the key is absent)
CallerOptions ==
    [maxFileSize : {None, Some(1)},
     excludePatterns : {None, Some(<<<<"s", "r", "c", "/", "*", "*", "/", "c", ".", "t", "s">>>>)},
     includeExtensions : {None, Some(<<<<".", "t", "s">>>>),
                          Some(<<<<".", "t", "s">>, <<".", "t", "s">>>>),
                          Some(<<<<".", "t", "s">>, <<"s">>>>)},
     maxFiles : {None} \cup {Some(n) : n \in 0..MaxFilesOpt}]

ScanInit ==
    /\ folder \in Folders
    /\ userOptions \in UserSettings
    /\ options \in CallerOptions
    /\ scOp = ""
    /\ scPc = "call"
    /\ files = [threw |-> FALSE, files |-> <<>>]
    /\ validation = <<>>

CallGetFilesToIndex ==
    /\ scPc = "call"
    /\ scOp' = "getFilesToIndex"
    /\ files' = GetFilesToIndex(folder, userOptions, options)
    /\ scPc' = "done"
    /\ UNCHANGED <<folder, userOptions, options, validation>>
    /\ UNCHANGED <<lineVars, astVars, chunkVars, storeVars, indexVars, embedVars>>

CallValidateIndexingOperation ==
    /\ scPc = "call"
    /\ scOp' = "validateIndexingOperation"
    /\ files' = GetFilesToIndex(folder, userOptions, options)
    /\ validation' = Some(ValidateIndexingOperation(folder, userOptions, options))
    /\ scPc' = "done"
    /\ UNCHANGED <<folder, userOptions, options>>
    /\ UNCHANGED <<lineVars, astVars, chunkVars, storeVars, indexVars, embedVars>>

ScanNext == CallGetFilesToIndex \/ CallValidateIndexingOperation

\* the options the finished scan ran with
scanOpts == ScanOpts(userOptions, options)

\* a getFilesToIndex call that returned
Scanned == scPc = "done" /\ ~files.threw

\* the folder entry a returned path belongs to
EntryOf(path) == CHOOSE f \in {folder[i] : i \in 1..Len(folder)} : f.path = path

Returned == {files.files[i] : i \in 1..Len(files.files)}

\* the files that pass the include, exclude and size filters of the scan
Qualifying ==
    {f.path : f \in {g \in {folder[i] : i \in 1..Len(folder)} :
        /\ \E k \in 1..Len(scanOpts.includeExtensions[1]) :
                EndsWith(g.path, scanOpts.includeExtensions[1][k])
        /\ ~ShouldExclude(g.path, scanOpts)
        /\ SizeAccepted(g, scanOpts)}}

\* C4: for every folder and every option set (every maxFiles, 0 and 1 included)
\* getFilesToIndex returns at most maxFiles paths.
C4_AtMostMaxFiles ==
    (Scanned /\ scanOpts.maxFiles # None) =>
        Len(files.files) <= scanOpts.maxFiles[1]

\* an exclude glob as the claim reads it: '**' any characters, separators
\* included; '*' any characters but the separator; the rest literally
RECURSIVE GlobTerms(_)
GlobTerms(pattern) ==
    IF pattern = <<>> THEN <<>>
    ELSE IF Len(pattern) >= 2 /\ pattern[1] = "*" /\ pattern[2] = "*"
         THEN <<[kind |-> "anyStar"]>> \o GlobTerms(SubSeq(pattern, 3, Len(pattern)))
    ELSE IF Head(pattern) = "*"
         THEN <<[kind |-> "notSlashStar"]>> \o GlobTerms(Tail(pattern))
    ELSE <<[kind |-> "char", char |-> Head(pattern)]>> \o GlobTerms(Tail(pattern))

\* the whole relative path matches the glob
GlobMatches(pattern, relativePath) ==
    MatchAt(GlobTerms(pattern), 1, relativePath, 1, TRUE)

\* C5: getFilesToIndex never returns a file whose path relative to the root
\* matches an exclude glob, at any directory depth.
C5_NoExcludedFileReturned ==
    Scanned =>
        \A path \in Returned :
            \A i \in 1..Len(scanOpts.excludePatterns[1]) :
                ~GlobMatches(scanOpts.excludePatterns[1][i], Relative(FolderPath, path))

\* C6: getFilesToIndex never returns a file whose size exceeds maxFileSize or
\* whose stat fails, and a file skipped for its size does not count toward
\* maxFiles: while fewer than maxFiles files are accepted no qualifying file is
\* left out.
C6_SizeFilter ==
    Scanned =>
        /\ \A path \in Returned :
              /\ EntryOf(path).size # None
              /\ scanOpts.maxFileSize # None =>
                    EntryOf(path).size[1] <= scanOpts.maxFileSize[1]
        /\ (scanOpts.maxFiles = None \/ Len(files.files) < scanOpts.maxFiles[1]) =>
              Qualifying \subseteq Returned

\* a scan that skipped a file whose stat failed and a file that is too large,
\* and then accepted a later file as the one file maxFiles allows
C6_Witness ==
    /\ Scanned
    /\ scanOpts.maxFiles = Some(1)
    /\ scanOpts.maxFileSize = Some(1)
    /\ Len(folder) >= 3
    /\ folder[1].size = None
    /\ folder[2].size = Some(2)
    /\ EndsWith(folder[1].path, scanOpts.includeExtensions[1][1])
    /\ EndsWith(folder[2].path, scanOpts.includeExtensions[1][1])
    /\ ~ShouldExclude(folder[1].path, scanOpts)
    /\ ~ShouldExclude(folder[2].path, scanOpts)
    /\ files.files = <<folder[3].path>>

\* C7: validateIndexingOperation returns valid = false when no file qualifies
\* and when the number of qualifying files exceeds maxFiles; valid = true only
\* when the qualifying count is between 1 and maxFiles.
C7_ValidateVerdict ==
    (/\ scPc = "done"
     /\ scOp = "validateIndexingOperation"
     /\ ~files.threw
     /\ scanOpts.maxFiles = ValidateOpts(options).maxFiles) =>
        (validation[1].valid <=>
            (1 <= Cardinality(Qualifying)
             /\ Cardinality(Qualifying) <= scanOpts.maxFiles[1]))

\* C28: getFilesToIndex returns each file path at most once, for every
\* includeExtensions list, also one with a repeated entry or with an entry that
\* is a suffix of another.
C28_EachFileOnce ==
    Scanned =>
        \A i, j \in 1..Len(files.files) : files.files[i] = files.files[j] => i = j

\* the value of an option by precedence: the caller's when supplied, else the
\* user's setting when set, else the built-in default
ByPrecedence(k) ==
    IF options[k] # None THEN options[k]
    ELSE IF userOptions[k] # None THEN userOptions[k]
    ELSE DEFAULT_OPTIONS[k]

\* C25: every option has a default and is overridable on its own: the value
\* a finished getFilesToIndex ran with is, for each of the four fields, the
\* caller's option if supplied, else the user's setting if set, else the
\* built-in default; a field unset at one level never erases a lower level.
C25_OptionPrecedence ==
    scPc = "done" => \A k \in OptionKeys : scanOpts[k] = ByPrecedence(k)

(***************************************************************************)
(* Spec: MemoryService                                                     *)
(***************************************************************************)
\* the texts, file paths, language ids and queries callers pass
DocTexts == {<<" ">>, <<"a", " ", "b">>}
FilePaths == {<<"a">>, <<"'">>, <<"'", "'">>}
LanguageIds == {None, Some("typescript"), Some("plaintext")}
Queries == {<<"a">>, <<"b">>}

\* the chunk size addDocument passes
ChunkSize == 500

NoCall == [op |-> "", text |-> <<>>, filepath |-> <<>>, languageId |-> None,
           limit |-> 0]
NoRet == [threw |-> FALSE, chunksCreated |-> 0, rows |-> <<>>, listing |-> {},
          count |-> 0]

\* after construction: no parser, no table, no call in flight
StoreFresh ==
    /\ parser = FALSE
    /\ loadedLanguages = {}
    /\ currentLanguageId = None
    /\ calls = <<>>
    /\ tableDefined = FALSE
    /\ table = <<>>
    /\ nextId = 1
    /\ call = NoCall
    /\ ret = NoRet
    /\ removed = {}
    /\ effects = <<>>

\* after construction, every grammar file in place
StoreInit == StoreFresh /\ wasmOk = LANGUAGE_CONFIG

\* MemoryService.init on a fresh storage directory: ChunkingService.init gets a
\* parser or, when Parser.init fails, none; openTable fails and createTable
\* stores the sentinel record
MemoryServiceInit ==
    /\ ~tableDefined
    /\ parser' \in BOOLEAN
    /\ tableDefined' = TRUE
    /\ table' = <<Sentinel>>
    /\ call' = [NoCall EXCEPT !.op = "init"]
    /\ ret' = NoRet
    /\ removed' = {}
    /\ effects' = <<Eff("openTable"), Eff("createTable")>>
    /\ UNCHANGED <<wasmOk, loadedLanguages, currentLanguageId, calls, nextId>>
    /\ UNCHANGED <<lineVars, astVars, scanVars, indexVars, embedVars>>

\* the chunks of addDocument, the chunking service state they leave and the
\* parser calls made for them
DocumentChunks(text, languageId, parseThrows) ==
    LET cs == [parser |-> parser, loaded |-> loadedLanguages,
               current |-> currentLanguageId]
    IN  IF languageId # None /\ IsLanguageSupported(languageId[1])
        THEN Chunk(cs, wasmOk, text, languageId, ChunkSize, parseThrows)
        ELSE [chunks |-> MemorySimpleChunk(text, ChunkSize), cs |-> cs,
              effects |-> <<>>, threw |-> FALSE]

\* the decimal digits, and the text of the n-th id uuidv4 hands out
Digits == <<"0", "1", "2", "3", "4", "5", "6", "7", "8", "9">>
Uuid(n) == <<"u", Digits[(n % 10) + 1]>>

\* records built from every chunk, whitespace-only chunks too
RecordsOfEveryChunk(chunks, filepath, firstId) ==
    [i \in 1..Len(chunks) |->
        [vector |-> GetEmbedding(chunks[i]), text |-> chunks[i],
         filepath |-> filepath, id |-> Uuid(firstId + i - 1)]]

\* the records addDocument builds: one per chunk that is not whitespace-only,
\* each with a fresh id
Records(chunks, filepath, firstId) ==
    LET kept == SelectSeq(chunks, LAMBDA c : ~IsBlank(c))
    IN  [i \in 1..Len(kept) |->
            [vector |-> GetEmbedding(kept[i]), text |-> kept[i],
             filepath |-> filepath, id |-> Uuid(firstId + i - 1)]]

\* an add that first removes the rows of the same filepath
TableAddUpsert(rows, records) ==
    IF records = <<>> THEN rows
    ELSE SelectSeq(rows, LAMBDA r : r.filepath # records[1].filepath) \o records

\* table.add(records)
TableAdd(rows, records) == rows \o records

\* a loop that hands the records embedded so far to the store when an
\* embedding fails
BatchOfEmbedded(records, embedFailAt) ==
    IF embedFailAt > 0 THEN SubSeq(records, 1, embedFailAt - 1) ELSE records

\* the batch that reaches table.add: the loop over the chunks ends before the
\* add when getEmbedding rejects (embedFailAt: the chunk it rejects, 0: none)
Batch(records, embedFailAt) ==
    IF embedFailAt > 0 THEN <<>> ELSE records

\* MemoryService.addDocument(text, filepath, languageId); parseThrows: the
\* parser throws on this text; embedFailAt: the chunk whose embedding fails
AddDocumentCall(text, filepath, languageId, parseThrows, embedFailAt) ==
    /\ call' = [NoCall EXCEPT !.op = "addDocument", !.text = text,
                              !.filepath = filepath, !.languageId = languageId]
    /\ removed' = {}
    /\ UNCHANGED <<parser, wasmOk, calls, tableDefined>>
    /\ IF IsBlank(text)
       THEN /\ ~parseThrows /\ embedFailAt = 0
            /\ ret' = NoRet
            /\ effects' = <<>>
            /\ UNCHANGED <<loadedLanguages, currentLanguageId, table, nextId>>
       ELSE LET chunked == DocumentChunks(text, languageId, parseThrows)
                records == Records(chunked.chunks, filepath, nextId)
                batch == Batch(records, embedFailAt)
                embedded == IF embedFailAt > 0 THEN embedFailAt ELSE Len(records)
                added == Len(batch) > 0 /\ tableDefined
            IN  /\ parseThrows =>
                      \E i \in 1..Len(chunked.effects) : chunked.effects[i].op = "parse"
                /\ embedFailAt <= Len(records)
                /\ nextId + Len(records) - 1 <= MaxIds
                /\ loadedLanguages' = chunked.cs.loaded
                /\ currentLanguageId' = chunked.cs.current
                /\ nextId' = nextId + (IF embedFailAt > 0 THEN embedFailAt - 1
                                       ELSE Len(records))
                /\ table' = IF added THEN TableAdd(table, batch) ELSE table
                /\ effects' = chunked.effects
                                \o [i \in 1..embedded |-> Eff("getEmbedding")]
                                \o (IF added THEN <<EffCount("table.add", Len(batch))>>
                                    ELSE <<>>)
                /\ ret' = IF embedFailAt > 0 THEN [NoRet EXCEPT !.threw = TRUE]
                          ELSE [NoRet EXCEPT !.chunksCreated = Len(records)]

\* addDocument called on its own
AddDocument(text, filepath, languageId, parseThrows, embedFailAt) ==
    /\ AddDocumentCall(text, filepath, languageId, parseThrows, embedFailAt)
    /\ UNCHANGED <<lineVars, astVars, scanVars, indexVars, embedVars>>

\* a search that does not pass the limit on
SearchRowsUnlimited(queryVector, limit) ==
    IF tableDefined THEN TableSearch(table, queryVector, Len(table)) ELSE {<<>>}

\* the results search can return: this.table?.search(queryVector).limit(limit)
\* .toArray(), or [] without a table
SearchRows(queryVector, limit) ==
    IF tableDefined THEN TableSearch(table, queryVector, limit) ELSE {<<>>}

\* MemoryService.search(query, limit)
Search(query, limit) ==
    /\ call' = [NoCall EXCEPT !.op = "search", !.text = query, !.limit = limit]
    /\ \E results \in SearchRows(GetEmbedding(query), limit) :
          ret' = [NoRet EXCEPT !.rows = results]
    /\ removed' = {}
    /\ effects' = <<Eff("getEmbedding")>>
                    \o (IF tableDefined THEN <<Eff("table.search")>> ELSE <<>>)
    /\ UNCHANGED <<chunkVars, tableDefined, table, nextId>>
    /\ UNCHANGED <<lineVars, astVars, scanVars, indexVars, embedVars>>

\* what getFileChunks(filepath) returns in the current state
FileChunks(filepath) ==
    IF ~tableDefined THEN <<>>
    ELSE LET matching == SelectSeq(table, LAMBDA r : r.filepath = filepath)
         IN  [i \in 1..Len(matching) |->
                [id |-> matching[i].id, text |-> matching[i].text,
                 filepath |-> matching[i].filepath]]

\* a catch block that rethrows the error of the query
CaughtRethrown(queryFails, answer) ==
    IF queryFails THEN [NoRet EXCEPT !.threw = TRUE] ELSE answer

\* what a read returns: its answer, or from the catch block the empty answer
\* ([] or 0) when the query fails
Caught(queryFails, answer) ==
    IF queryFails THEN NoRet ELSE answer

\* a read of the table: one query, and the error logged when it fails
ReadOnly(op, filepath, queryFails, answer) ==
    /\ call' = [NoCall EXCEPT !.op = op, !.filepath = filepath]
    /\ ret' = Caught(queryFails, answer)
    /\ removed' = {}
    /\ effects' = IF ~tableDefined THEN <<>>
                  ELSE IF queryFails THEN <<Eff("table.query"), Eff("console.error")>>
                  ELSE <<Eff("table.query")>>
    /\ UNCHANGED <<chunkVars, tableDefined, table, nextId>>
    /\ UNCHANGED <<lineVars, astVars, scanVars, indexVars, embedVars>>

\* MemoryService.getFileChunks(filepath); queryFails: the query rejects and
\* the catch block answers []
GetFileChunks(filepath, queryFails) ==
    /\ queryFails => tableDefined
    /\ ReadOnly("getFileChunks", filepath, queryFails,
                [NoRet EXCEPT !.rows = FileChunks(filepath)])

\* what getFileChunksWithVectors(filepath) returns in the current state
FileChunksWithVectors(filepath) ==
    IF ~tableDefined THEN <<>>
    ELSE LET matching == SelectSeq(table, LAMBDA r : r.filepath = filepath)
         IN  [i \in 1..Len(matching) |->
                [id |-> matching[i].id, text |-> matching[i].text,
                 filepath |-> matching[i].filepath, vector |-> matching[i].vector]]

\* MemoryService.getFileChunksWithVectors(filepath); queryFails: the query
\* rejects and the catch block answers []
GetFileChunksWithVectors(filepath, queryFails) ==
    /\ queryFails => tableDefined
    /\ ReadOnly("getFileChunksWithVectors", filepath, queryFails,
                [NoRet EXCEPT !.rows = FileChunksWithVectors(filepath)])

\* what getAllIndexedFiles() returns in the current state: one {filepath,
\* count} per filepath other than 'init'
IndexedFiles ==
    IF ~tableDefined THEN {}
    ELSE LET counted == {i \in 1..Len(table) :
                            table[i].filepath # <<>> /\ table[i].filepath # InitPath}
         IN  {[filepath |-> table[i].filepath,
               count |-> Cardinality({k \in counted : table[k].filepath = table[i].filepath})] :
                 i \in counted}

\* MemoryService.getAllIndexedFiles(); queryFails: the catch block answers []
GetAllIndexedFiles(queryFails) ==
    /\ queryFails => tableDefined
    /\ ReadOnly("getAllIndexedFiles", <<>>, queryFails,
                [NoRet EXCEPT !.listing = IndexedFiles])

\* what getIndexedChunkCount() returns in the current state: the number of
\* records whose filepath is not 'init'
IndexedChunkCount ==
    IF ~tableDefined THEN 0
    ELSE Len(SelectSeq(table, LAMBDA r : r.filepath # InitPath))

\* MemoryService.getIndexedChunkCount(); queryFails: the catch block answers 0
GetIndexedChunkCount(queryFails) ==
    /\ queryFails => tableDefined
    /\ ReadOnly("getIndexedChunkCount", <<>>, queryFails,
                [NoRet EXCEPT !.count = IndexedChunkCount])

\* MemoryService.deleteFileIndex(filepath); storeFails: the store rejects the
\* delete, and the error is rethrown
DeleteFileIndex(filepath, storeFails) ==
    /\ call' = [NoCall EXCEPT !.op = "deleteFileIndex", !.filepath = filepath]
    /\ UNCHANGED <<chunkVars, tableDefined, nextId>>
    /\ UNCHANGED <<lineVars, astVars, scanVars, indexVars, embedVars>>
    /\ IF ~tableDefined
       THEN /\ ~storeFails
            /\ ret' = NoRet
            /\ removed' = {}
            /\ effects' = <<>>
            /\ UNCHANGED table
       ELSE LET deleted == TableDelete(table, FilepathPredicate(filepath))
            IN  IF storeFails \/ deleted.threw
                THEN /\ ret' = [NoRet EXCEPT !.threw = TRUE]
                     /\ removed' = {}
                     /\ effects' = <<Eff("table.delete"), Eff("console.error")>>
                     /\ UNCHANGED table
                ELSE /\ ret' = NoRet
                     /\ effects' = <<Eff("table.delete")>>
                     /\ table' = deleted.rows
                     /\ removed' = {table[i] : i \in 1..Len(table)}
                                     \ {deleted.rows[i] : i \in 1..Len(deleted.rows)}

Next ==
    \/ MemoryServiceInit
    \/ \E text \in DocTexts, filepath \in FilePaths, languageId \in LanguageIds :
          AddDocument(text, filepath, languageId, FALSE, 0)
    \/ \E query \in Queries, limit \in 1..MaxLimit : Search(query, limit)
    \/ \E filepath \in FilePaths : GetFileChunks(filepath, FALSE)
    \/ \E filepath \in FilePaths, storeFails \in BOOLEAN :
          DeleteFileIndex(filepath, storeFails)

RowsOf(rows, filepath) == SelectSeq(rows, LAMBDA r : r.filepath = filepath)
RowsNotOf(rows, filepath) == SelectSeq(rows, LAMBDA r : r.filepath # filepath)

\* C1: no upsert: on an initialized store a second addDocument with the same
\* non-blank (text, filepath, languageId) creates as many records as the first,
\* keeps every earlier row, and leaves the records of both calls, 2n in all with
\* distinct ids, at the end of the table.
C1_NoUpsert ==
    [][(/\ tableDefined
        /\ call.op = "addDocument"
        /\ call' = call
        /\ ~IsBlank(call.text)) =>
            LET n == ret.chunksCreated
                last == (Len(table') - 2 * n + 1)..Len(table')
            IN  /\ ret'.chunksCreated = n
                /\ Len(table') = Len(table) + n
                /\ SubSeq(table', 1, Len(table)) = table
                /\ Len(RowsOf(table', call.filepath))
                      = Len(RowsOf(table, call.filepath)) + n
                /\ Len(table') >= 2 * n
                /\ \A i \in last : table'[i].filepath = call.filepath
                /\ \A i, j \in last : i # j => table'[i].id # table'[j].id
                /\ \A i \in last : i + n \in last => table'[i].text = table'[i + n].text
      ]_vars

\* the same document added twice: its records are there twice
C1_Witness ==
    /\ tableDefined
    /\ call.op = "addDocument"
    /\ ret.chunksCreated >= 1
    /\ Len(table) >= 1 + 2 * ret.chunksCreated
    /\ \A i \in (Len(table) - 2 * ret.chunksCreated + 1)..Len(table) :
          /\ table[i].filepath = call.filepath
          /\ i + ret.chunksCreated <= Len(table) =>
                table[i].text = table[i + ret.chunksCreated].text

\* C2: once deleteFileIndex(filepath) has completed without error, whatever was
\* added before and whatever quote characters the path holds,
\* getFileChunks(filepath) returns an empty sequence.
C2_DeletedFileHasNoChunks ==
    (call.op = "deleteFileIndex" /\ ~ret.threw) => FileChunks(call.filepath) = <<>>

\* a path with a quote character whose records were deleted, others remaining
C2_Witness ==
    /\ call.op = "deleteFileIndex"
    /\ ~ret.threw
    /\ \E i \in 1..Len(call.filepath) : call.filepath[i] = "'"
    /\ removed # {}
    /\ Len(table) >= 2

\* C3: deleteFileIndex(p) removes only records whose filepath is exactly p: the
\* rows whose filepath differs from p, paths that differ by quote characters
\* or have p as a prefix included, are the same before and after.
C3_DeleteLeavesOtherPaths ==
    [][call'.op = "deleteFileIndex" =>
            /\ RowsNotOf(table', call'.filepath) = RowsNotOf(table, call'.filepath)
            /\ \A r \in removed' : r.filepath = call'.filepath
            /\ Len(table') + Cardinality(removed') = Len(table)
      ]_vars

\* records of p were deleted while a record whose path extends p by a quote
\* character is still there
C3_Witness ==
    /\ call.op = "deleteFileIndex"
    /\ ~ret.threw
    /\ removed # {}
    /\ \E i \in 1..Len(table) :
          /\ table[i].filepath # call.filepath
          /\ StartsWith(table[i].filepath, call.filepath)

\* C10: search(query, limit) returns at most limit records, ordered from most to
\* least similar to the embedding of the query: the min(limit, rows) nearest rows
\* of the table, so all of them when there are fewer than limit; without a table
\* it returns an empty sequence.
C10_SearchNearestFirst ==
    call.op = "search" =>
        LET q == GetEmbedding(call.text)
            rows == ret.rows
            d(r) == Distance(r.vector, q)
        IN  /\ Len(rows) <= call.limit
            /\ \A j, k \in 1..Len(rows) : j < k => d(rows[j]) <= d(rows[k])
            /\ ~tableDefined => rows = <<>>
            /\ tableDefined =>
                  /\ Len(rows) = Min(call.limit, Len(table))
                  /\ \A j, k \in 1..Len(rows) : j # k => rows[j].id # rows[k].id
                  /\ \A j \in 1..Len(rows) : \E i \in 1..Len(table) : table[i] = rows[j]
                  /\ \A i \in 1..Len(table) :
                        (\A j \in 1..Len(rows) : rows[j] # table[i]) =>
                            \A j \in 1..Len(rows) : d(rows[j]) <= d(table[i])

\* a search cut at the limit: more rows than the limit, and the rows returned
\* strictly nearer than a row that was left out
C10_Witness ==
    /\ call.op = "search"
    /\ tableDefined
    /\ call.limit = 2
    /\ Len(table) > 2
    /\ Len(ret.rows) = 2
    /\ Distance(ret.rows[1].vector, GetEmbedding(call.text))
          < Distance(ret.rows[2].vector, GetEmbedding(call.text))
    /\ \E i \in 1..Len(table) :
          Distance(ret.rows[2].vector, GetEmbedding(call.text))
              < Distance(table[i].vector, GetEmbedding(call.text))

(***************************************************************************)
(* SpecStore: MemoryService with the reserved path, folders, listings and  *)
(* deletions that the store may reject                                     *)
(***************************************************************************)
\* path.dirname (POSIX): the position of the last separator that is followed
\* by a name, scanning from the end and skipping trailing separators; 0 when
\* there is none after the first character
RECURSIVE DirnameEnd(_, _, _)
DirnameEnd(path, i, matchedSlash) ==
    IF i < 2 THEN 0
    ELSE IF path[i] = "/"
         THEN IF ~matchedSlash THEN i ELSE DirnameEnd(path, i - 1, matchedSlash)
    ELSE DirnameEnd(path, i - 1, FALSE)

Dirname(path) ==
    IF path = <<>> THEN <<".">>
    ELSE LET hasRoot == path[1] = "/"
             end == DirnameEnd(path, Len(path), TRUE)
         IN  IF end = 0 THEN (IF hasRoot THEN <<"/">> ELSE <<".">>)
             ELSE IF hasRoot /\ end = 2 THEN <<"/", "/">>
             ELSE SubSeq(path, 1, end - 1)

\* a filter that takes every record below the folder, at any depth
InFolderTree(filepath, folderPath) == StartsWith(filepath, folderPath \o <<"/">>)

\* the filter of deleteFolderIndex: path.dirname(r.filepath) === folderPath
InFolder(filepath, folderPath) == Dirname(filepath) = folderPath

\* `id = '${id}'`
IdPredicate(id) == [column |-> "id", literal |-> <<"'">> \o id \o <<"'">>]

\* per-id deletes that take effect only when all of them went through
DeleteEachRolledBack(rows, ids, k) ==
    IF k < Len(ids) THEN rows
    ELSE SelectSeq(rows, LAMBDA r : \A j \in 1..k : r.id # ids[j])

\* the table after the per-id deletes of the first k ids, one delete each
RECURSIVE DeleteEach(_, _, _)
DeleteEach(rows, ids, k) ==
    IF k = 0 THEN rows
    ELSE TableDelete(DeleteEach(rows, ids, k - 1), IdPredicate(ids[k])).rows

\* the query and the loop of per-id deletes over the `ids` it gave;
\* queryFails: the query rejects; failAt: the delete the store rejects (0:
\* none); either error is logged and rethrown
DeleteLoop(op, arg, ids, queryFails, failAt) ==
    LET done == IF queryFails THEN 0
                ELSE IF failAt > 0 THEN failAt - 1 ELSE Len(ids)
        issued == IF queryFails THEN 0
                  ELSE IF failAt > 0 THEN failAt ELSE Len(ids)
        kept == DeleteEach(table, ids, done)
        failed == queryFails \/ failAt > 0
    IN  /\ failAt <= Len(ids)
        /\ queryFails => failAt = 0
        /\ call' = [NoCall EXCEPT !.op = op, !.filepath = arg]
        /\ table' = kept
        /\ removed' = {table[i] : i \in 1..Len(table)} \ {kept[i] : i \in 1..Len(kept)}
        /\ effects' = <<Eff("table.query")>>
                        \o [i \in 1..issued |-> EffId("table.delete", ids[i])]
                        \o (IF failed THEN <<Eff("console.error")>> ELSE <<>>)
        /\ ret' = IF failed THEN [NoRet EXCEPT !.threw = TRUE]
                  ELSE [NoRet EXCEPT !.count = Len(ids)]
        /\ UNCHANGED <<chunkVars, tableDefined, nextId>>
        /\ UNCHANGED <<lineVars, astVars, scanVars, indexVars, embedVars>>

\* an operation called before init: nothing happens
NoTable(op, arg) ==
    /\ call' = [NoCall EXCEPT !.op = op, !.filepath = arg]
    /\ ret' = NoRet
    /\ removed' = {}
    /\ effects' = <<>>
    /\ UNCHANGED <<chunkVars, tableDefined, table, nextId>>
    /\ UNCHANGED <<lineVars, astVars, scanVars, indexVars, embedVars>>

\* the ids of the rows a filter took, in table order
IdsOf(taken) == [i \in 1..Len(taken) |-> taken[i].id]

\* MemoryService.clearAllIndexes(); queryFails: the query rejects; failAt: the
\* delete the store rejects
ClearAllIndexes(queryFails, failAt) ==
    IF ~tableDefined THEN ~queryFails /\ failAt = 0 /\ NoTable("clearAllIndexes", <<>>)
    ELSE DeleteLoop("clearAllIndexes", <<>>,
                    IdsOf(SelectSeq(table, LAMBDA r : r.filepath # InitPath)),
                    queryFails, failAt)

\* MemoryService.deleteFolderIndex(folderPath); queryFails: the query rejects;
\* failAt: the delete the store rejects
DeleteFolderIndex(folderPath, queryFails, failAt) ==
    IF ~tableDefined
    THEN ~queryFails /\ failAt = 0 /\ NoTable("deleteFolderIndex", folderPath)
    ELSE DeleteLoop("deleteFolderIndex", folderPath,
                    IdsOf(SelectSeq(table, LAMBDA r : InFolder(r.filepath, folderPath))),
                    queryFails, failAt)

\* the file paths and folders callers pass: the reserved path, a file in a
\* folder, one in its subfolder and the empty path
StorePaths == {InitPath, <<"d", "/", "a">>, <<"d", "/", "e", "/", "a">>, <<>>}
StoreFolders == {<<"d">>, <<"d", "/", "e">>, <<".">>}

InitStore == LineIdle /\ AstIdle /\ ScanIdle /\ IndexIdle /\ EmbedIdle /\ StoreInit

NextStore ==
    \/ MemoryServiceInit
    \/ \E text \in DocTexts, filepath \in StorePaths :
          AddDocument(text, filepath, None, FALSE, 0)
    \/ \E queryFails \in BOOLEAN : GetAllIndexedFiles(queryFails)
    \/ \E filepath \in StorePaths, queryFails \in BOOLEAN :
          GetFileChunks(filepath, queryFails)
    \/ \E filepath \in StorePaths, queryFails \in BOOLEAN :
          GetFileChunksWithVectors(filepath, queryFails)
    \/ \E queryFails \in BOOLEAN : GetIndexedChunkCount(queryFails)
    \/ \E queryFails \in BOOLEAN, failAt \in 0..MaxIds :
          ClearAllIndexes(queryFails, failAt)
    \/ \E filepath \in StorePaths, storeFails \in BOOLEAN :
          DeleteFileIndex(filepath, storeFails)
    \/ \E folderPath \in StoreFolders, queryFails \in BOOLEAN, failAt \in 0..MaxIds :
          DeleteFolderIndex(folderPath, queryFails, failAt)

\* the rows of the table with the given filepath that are not the sentinel
UserRowsOf(filepath) ==
    {i \in 1..Len(table) : table[i].filepath = filepath /\ table[i] # Sentinel}

\* C11: none of getAllIndexedFiles(), getFileChunks(filepath) and
\* getFileChunksWithVectors(filepath) returns or counts the sentinel record,
\* whatever the filepath argument ("init" included), and a returned chunk has
\* exactly the filepath asked for.
C11_SentinelNotProjected ==
    /\ call.op \in {"getFileChunks", "getFileChunksWithVectors"} =>
          \A i \in 1..Len(ret.rows) :
              /\ ret.rows[i].filepath = call.filepath
              /\ ~(ret.rows[i].id = Sentinel.id /\ ret.rows[i].text = Sentinel.text)
    /\ call.op = "getAllIndexedFiles" =>
          \A e \in ret.listing : e.count = Cardinality(UserRowsOf(e.filepath))

\* C12: once init has created the store, the sentinel record is in the table
\* after any sequence of addDocument, clearAllIndexes, deleteFileIndex and
\* deleteFolderIndex calls.
C12_SentinelStays ==
    tableDefined => \E i \in 1..Len(table) : table[i] = Sentinel

\* C13: after clearAllIndexes completed without error the table holds no record
\* other than the sentinel, whatever was added before, and every record it
\* removed was removed by one delete naming that record's id.
C13_ClearLeavesOnlySentinel ==
    (call.op = "clearAllIndexes" /\ ~ret.threw /\ tableDefined) =>
        /\ \A i \in 1..Len(table) : table[i] = Sentinel
        /\ \A r \in removed :
              Cardinality({k \in 1..Len(effects) :
                              effects[k].op = "table.delete" /\ effects[k].id = r.id}) = 1

\* the directory component of a path: what stands before its last separator,
\* "." for a path without separator
HasDirectory(filepath, folderPath) ==
    \/ /\ folderPath = <<".">>
       /\ \A i \in 1..Len(filepath) : filepath[i] # "/"
    \/ \E k \in 2..(Len(filepath) - 1) :
          /\ filepath[k] = "/"
          /\ \A i \in (k + 1)..Len(filepath) : filepath[i] # "/"
          /\ SubSeq(filepath, 1, k - 1) = folderPath

\* C14: a deleteFolderIndex(folderPath) that completes removes exactly the
\* records whose directory component is folderPath, keeps every other record
\* (those of subfolders too) as it was and in order, and returns the number of
\* records it removed.
C14_DeleteFolderNonRecursive ==
    [][(call'.op = "deleteFolderIndex" /\ tableDefined /\ ~ret'.threw) =>
            /\ table' = SelectSeq(table,
                                  LAMBDA r : ~HasDirectory(r.filepath, call'.filepath))
            /\ ret'.count = Len(table) - Len(table')
            /\ ret'.count = Cardinality(removed')
      ]_vars

\* a folder's record was deleted while the record of its subfolder stayed
C14_Witness ==
    /\ call.op = "deleteFolderIndex"
    /\ ~ret.threw
    /\ ret.count >= 1
    /\ \A r \in removed : HasDirectory(r.filepath, call.filepath)
    /\ \E i \in 1..Len(table) :
          StartsWith(table[i].filepath, call.filepath \o <<"/">>)

(***************************************************************************)
(* SpecAdd: addDocument with failing parser set-up, grammar loads, parses  *)
(* and embeddings                                                          *)
(***************************************************************************)
\* the language ids callers pass: a language with a grammar, one the README
\* names that has none, and no language
AddLanguageIds == {None, Some("typescript"), Some("go")}
AddPaths == {<<"a">>, <<"b">>}

\* the grammar files that load: all of them, or all but one
WasmChoices == {LANGUAGE_CONFIG, LANGUAGE_CONFIG \ {"typescript"}}

InitAdd == LineIdle /\ AstIdle /\ ScanIdle /\ IndexIdle /\ EmbedIdle /\ StoreFresh /\ wasmOk \in WasmChoices

NextAdd ==
    \/ MemoryServiceInit
    \/ \E text \in DocTexts, filepath \in AddPaths, languageId \in AddLanguageIds,
          parseThrows \in BOOLEAN, embedFailAt \in 0..MaxIds :
          AddDocument(text, filepath, languageId, parseThrows, embedFailAt)
    \/ \E filepath \in AddPaths, queryFails \in BOOLEAN :
          GetFileChunks(filepath, queryFails)

\* the positions of the calls named op among the calls of the last operation
EffectsOf(op) == {k \in 1..Len(effects) : effects[k].op = op}

\* C15: in every state of the service, an addDocument that returns
\* {chunksCreated: n} leaves the table with exactly n records more, the earlier
\* rows untouched, the n new ones with the given filepath, a text that is not
\* whitespace-only and an id no other row has, inserted by one table.add; a
\* whitespace-only text returns n = 0 without any call on the store, and a
\* whitespace-only chunk gives no record.
C15_AddCreatesExactlyN ==
    [][(call'.op = "addDocument" /\ ~ret'.threw) =>
            LET n == ret'.chunksCreated
                new == (Len(table) + 1)..Len(table')
            IN  /\ Len(table') = Len(table) + n
                /\ SubSeq(table', 1, Len(table)) = table
                /\ \A i \in new :
                      /\ table'[i].filepath = call'.filepath
                      /\ ~IsBlank(table'[i].text)
                      /\ \A j \in 1..Len(table') : j # i => table'[j].id # table'[i].id
                /\ Cardinality({k \in 1..Len(effects') : effects'[k].op = "table.add"})
                      = (IF n > 0 THEN 1 ELSE 0)
                /\ IsBlank(call'.text) => (n = 0 /\ effects' = <<>>)
                /\ \A chunks \in SeqsUpTo({<<" ">>, <<"a">>}, 2) :
                      LET records == Records(chunks, call'.filepath, 1)
                      IN  /\ Len(records) = Len(SelectSeq(chunks, LAMBDA c : ~IsBlank(c)))
                          /\ \A i \in 1..Len(records) : ~IsBlank(records[i].text)
      ]_vars

\* C16: when the embedding of a chunk fails, addDocument rejects and the table
\* is as before the call: no table.add was made, whatever chunks were embedded
\* before the failure.
C16_EmbeddingFailureStoresNothing ==
    [][(call'.op = "addDocument" /\ ret'.threw) =>
            /\ table' = table
            /\ \A k \in 1..Len(effects') : effects'[k].op # "table.add"
            /\ effects'[Len(effects')].op = "getEmbedding"
      ]_vars

\* the second chunk's embedding failed after the first was embedded, on an
\* initialized store
C16_Witness ==
    /\ call.op = "addDocument"
    /\ ret.threw
    /\ tableDefined
    /\ Cardinality(EffectsOf("getEmbedding")) >= 2

\* the state of the chunking service
ServiceState ==
    [parser |-> parser, loaded |-> loadedLanguages, current |-> currentLanguageId]

\* the structural path cannot give chunks: no parser, the grammar is neither
\* cached nor loadable, the parse throws, or the traversal pushes nothing
StructuralFails(code, languageId, parseThrows) ==
    \/ ~parser
    \/ languageId \notin loadedLanguages /\ languageId \notin wasmOk
    \/ parseThrows
    \/ VisitNode(Parse(code, languageId), ChunkSize) = <<>>

ParserOps == {"Language.load", "setLanguage", "parse"}

\* C17: chunking never fails because of the structural path. In every state of
\* the service and for every text: chunk does not throw, and for a supported
\* language whose structural path fails (no parser, grammar not loadable, parse
\* throwing, no chunk pushed) its result is that of the line chunker; for an
\* absent or unsupported language addDocument takes the line chunker's result
\* without any call on the parser; an addDocument that rejects was rejected by
\* an embedding.
C17_ChunkingNeverFails ==
    /\ \A code \in DocTexts, languageId \in AddLanguageIds, parseThrows \in BOOLEAN :
          LET c == Chunk(ServiceState, wasmOk, code, languageId, ChunkSize, parseThrows)
              d == DocumentChunks(code, languageId, parseThrows)
              supported == languageId # None /\ IsLanguageSupported(languageId[1])
          IN  /\ ~c.threw
              /\ ~d.threw
              /\ (supported /\ StructuralFails(code, languageId[1], parseThrows)) =>
                    /\ c.chunks = SimpleChunk(code, ChunkSize)
                    /\ d.chunks = SimpleChunk(code, ChunkSize)
              /\ ~supported =>
                    /\ d.chunks = SimpleChunk(code, ChunkSize)
                    /\ d.effects = <<>>
                    /\ d.cs = ServiceState
    /\ (call.op = "addDocument"
        /\ (call.languageId = None \/ ~IsLanguageSupported(call.languageId[1]))) =>
            \A k \in 1..Len(effects) : effects[k].op \notin ParserOps
    /\ (call.op = "addDocument" /\ ret.threw) =>
            effects[Len(effects)].op = "getEmbedding"

\* a document of a supported language was stored as the line chunker's chunk
\* after the structural path failed with a logged error
C17_Witness ==
    /\ call.op = "addDocument"
    /\ call.languageId # None
    /\ IsLanguageSupported(call.languageId[1])
    /\ EffectsOf("console.error") # {}
    /\ ~ret.threw
    /\ ret.chunksCreated = 1
    /\ tableDefined
    /\ table[Len(table)].text = SimpleChunk(call.text, ChunkSize)[1]

\* the languages the README names as supported by smart chunking
ReadmeLanguages == {"typescript", "python", "cpp", "go", "rust", "java"}

\* C18: a document whose language id is one the README names is chunked
\* structurally, by a parse with that language's grammar, whenever a parser is
\* there and neither a grammar load nor the parse failed.
C18_ReadmeLanguagesStructural ==
    (/\ call.op = "addDocument"
     /\ ~IsBlank(call.text)
     /\ call.languageId # None
     /\ call.languageId[1] \in ReadmeLanguages
     /\ parser
     /\ EffectsOf("console.error") = {}) =>
        \E k \in EffectsOf("parse") : effects[k].lang = call.languageId[1]

(***************************************************************************)
(* SpecChunk: chunk and loadLanguage calls that overlap on one             *)
(* ChunkingService; a call gives way at each await                         *)
(***************************************************************************)
\* the slots of the calls in flight, and what callers pass
Slots == 1..2
ChunkTexts == {<<"a", " ", "b">>}
ChunkLanguageIds == {None, Some("typescript"), Some("python"), Some("go")}

\* a slot without a call
IdleCall == [pc |-> "idle", op |-> "", code |-> <<>>, languageId |-> None,
             ok |-> FALSE, hit |-> FALSE, loads |-> 0, grammar |-> None,
             chunks |-> <<>>]

\* a first step that answers true for a cached grammar without selecting it
LoadLanguageStartStale(cs, languageId) ==
    IF ~cs.parser THEN [pending |-> FALSE, ok |-> FALSE, hit |-> FALSE, cs |-> cs]
    ELSE IF languageId \in cs.loaded
         THEN [pending |-> FALSE, ok |-> TRUE, hit |-> TRUE, cs |-> cs]
    ELSE IF languageId \notin LANGUAGE_CONFIG
         THEN [pending |-> FALSE, ok |-> FALSE, hit |-> FALSE, cs |-> cs]
    ELSE [pending |-> TRUE, ok |-> FALSE, hit |-> FALSE, cs |-> cs]

\* loadLanguage up to its first await: no parser, a cache hit that selects the
\* cached grammar, an unsupported language, or the grammar load is awaited
LoadLanguageStart(cs, languageId) ==
    IF ~cs.parser THEN [pending |-> FALSE, ok |-> FALSE, hit |-> FALSE, cs |-> cs]
    ELSE IF languageId \in cs.loaded
         THEN [pending |-> FALSE, ok |-> TRUE, hit |-> TRUE,
               cs |-> [cs EXCEPT !.current = Some(languageId)]]
    ELSE IF languageId \notin LANGUAGE_CONFIG
         THEN [pending |-> FALSE, ok |-> FALSE, hit |-> FALSE, cs |-> cs]
    ELSE [pending |-> TRUE, ok |-> FALSE, hit |-> FALSE, cs |-> cs]

\* a loadLanguage that selects the language before its grammar load settled
LoadLanguageFinishSelecting(cs, wasm, languageId) ==
    IF languageId \in wasm
    THEN [ok |-> TRUE, cs |-> [cs EXCEPT !.loaded = @ \cup {languageId},
                                         !.current = Some(languageId)]]
    ELSE [ok |-> FALSE, cs |-> [cs EXCEPT !.current = Some(languageId)]]

\* loadLanguage after Parser.Language.load settled: the grammar is cached and
\* selected, or the error is logged and false returned
LoadLanguageFinish(cs, wasm, languageId) ==
    IF languageId \in wasm
    THEN [ok |-> TRUE, cs |-> [cs EXCEPT !.loaded = @ \cup {languageId},
                                         !.current = Some(languageId)]]
    ELSE [ok |-> FALSE, cs |-> cs]

\* the service state after a step
SetService(cs) ==
    /\ loadedLanguages' = cs.loaded
    /\ currentLanguageId' = cs.current
    /\ UNCHANGED <<parser, wasmOk>>

\* ChunkingService.init: Parser.init succeeds or fails
ChunkingInit ==
    /\ ~parser
    /\ parser' \in BOOLEAN
    /\ UNCHANGED <<wasmOk, loadedLanguages, currentLanguageId, calls>>
    /\ UNCHANGED <<lineVars, astVars, scanVars, storeVars, indexVars, embedVars>>

\* chunk(code, languageId, 500) is called: it runs up to the await of
\* loadLanguage, or to its end on the fallback
StartChunk(s, code, languageId) ==
    /\ calls[s].pc = "idle"
    /\ UNCHANGED <<lineVars, astVars, scanVars, storeVars, indexVars, embedVars>>
    /\ IF parser /\ languageId # None
       THEN LET l == LoadLanguageStart(ServiceState, languageId[1])
            IN  /\ SetService(l.cs)
                /\ calls' = [calls EXCEPT ![s] =
                      [IdleCall EXCEPT !.pc = IF l.pending THEN "loading" ELSE "resume",
                                       !.op = "chunk", !.code = code,
                                       !.languageId = languageId, !.ok = l.ok,
                                       !.hit = l.hit,
                                       !.loads = IF l.pending THEN 1 ELSE 0]]
       ELSE /\ UNCHANGED <<parser, wasmOk, loadedLanguages, currentLanguageId>>
            /\ calls' = [calls EXCEPT ![s] =
                  [IdleCall EXCEPT !.pc = "done", !.op = "chunk", !.code = code,
                                   !.languageId = languageId,
                                   !.chunks = SimpleChunk(code, ChunkSize)]]

\* loadLanguage(languageId) is called on its own
StartLoadLanguage(s, languageId) ==
    /\ calls[s].pc = "idle"
    /\ UNCHANGED <<lineVars, astVars, scanVars, storeVars, indexVars, embedVars>>
    /\ LET l == LoadLanguageStart(ServiceState, languageId)
       IN  /\ SetService(l.cs)
           /\ calls' = [calls EXCEPT ![s] =
                 [IdleCall EXCEPT !.pc = IF l.pending THEN "loading" ELSE "done",
                                  !.op = "loadLanguage",
                                  !.languageId = Some(languageId), !.ok = l.ok,
                                  !.hit = l.hit,
                                  !.loads = IF l.pending THEN 1 ELSE 0]]

\* the awaited Parser.Language.load settles and loadLanguage returns
FinishLoad(s) ==
    /\ calls[s].pc = "loading"
    /\ UNCHANGED <<lineVars, astVars, scanVars, storeVars, indexVars, embedVars>>
    /\ LET l == LoadLanguageFinish(ServiceState, wasmOk, calls[s].languageId[1])
       IN  /\ SetService(l.cs)
           /\ calls' = [calls EXCEPT ![s].ok = l.ok,
                                     ![s].pc = IF calls[s].op = "chunk" THEN "resume"
                                               ELSE "done"]

\* the grammar a call asked for
GrammarRequested(s) == calls[s].languageId

\* the grammar this.parser.parse works with: the one selected last on the
\* shared parser
GrammarAtParse(s) == currentLanguageId

\* chunk goes on after `await this.loadLanguage`: parse and visit when it was
\* true, _simpleChunk when that gives nothing or it was false
ResumeChunk(s, parseThrows) ==
    /\ calls[s].pc = "resume"
    /\ parseThrows => calls[s].ok
    /\ UNCHANGED <<parser, wasmOk, loadedLanguages, currentLanguageId>>
    /\ UNCHANGED <<lineVars, astVars, scanVars, storeVars, indexVars, embedVars>>
    /\ IF calls[s].ok
       THEN LET grammar == GrammarAtParse(s)
                visited == ParseAndVisit(calls[s].code, grammar[1], ChunkSize, parseThrows)
            IN  calls' = [calls EXCEPT ![s].pc = "done",
                                       ![s].grammar = grammar,
                                       ![s].chunks =
                                           IF visited # None THEN visited[1]
                                           ELSE SimpleChunk(calls[s].code, ChunkSize)]
       ELSE calls' = [calls EXCEPT ![s].pc = "done",
                                   ![s].chunks = SimpleChunk(calls[s].code, ChunkSize)]

\* the caller takes the result
ReturnCall(s) ==
    /\ calls[s].pc = "done"
    /\ calls' = [calls EXCEPT ![s] = IdleCall]
    /\ UNCHANGED <<parser, wasmOk, loadedLanguages, currentLanguageId>>
    /\ UNCHANGED <<lineVars, astVars, scanVars, storeVars, indexVars, embedVars>>

InitChunk ==
    /\ LineIdle /\ AstIdle /\ ScanIdle /\ IndexIdle /\ EmbedIdle /\ StoreIdle
    /\ parser = FALSE
    /\ wasmOk \in WasmChoices
    /\ loadedLanguages = {}
    /\ currentLanguageId = None
    /\ calls = [s \in Slots |-> IdleCall]

NextChunk ==
    \/ ChunkingInit
    \/ \E s \in Slots, code \in ChunkTexts, languageId \in ChunkLanguageIds :
          StartChunk(s, code, languageId)
    \/ \E s \in Slots, languageId \in {"typescript", "python", "go"} :
          StartLoadLanguage(s, languageId)
    \/ \E s \in Slots : FinishLoad(s)
    \/ \E s \in Slots, parseThrows \in BOOLEAN : ResumeChunk(s, parseThrows)
    \/ \E s \in Slots : ReturnCall(s)

\* C19: overlapping chunk calls are not serialized. A call that parses does so
\* with the grammar selected last on the shared parser, by whichever call; in
\* some interleaving that is the grammar of the other call's language, not the
\* one the parsing call asked for.
C19_ParseUsesSharedGrammar ==
    [][\A s \in Slots :
          (calls[s].pc = "resume" /\ calls[s].ok /\ calls'[s].pc = "done") =>
              calls'[s].grammar = currentLanguageId
      ]_vars

\* a chunk call finished a parse made with the grammar of a language it did
\* not ask for, while the call that selected that grammar is still in flight
C19_Witness ==
    \E s, t \in Slots :
        /\ s # t
        /\ calls[s].op = "chunk"
        /\ calls[s].pc = "done"
        /\ calls[s].grammar # None
        /\ calls[s].grammar # calls[s].languageId
        /\ calls[t].op = "chunk"
        /\ calls[t].pc = "resume"
        /\ calls[t].languageId = calls[s].grammar

\* C20: a grammar once cached stays cached; a loadLanguage for a cached id, on
\* its own or inside chunk, is a cache hit: it awaits no grammar load, returns
\* true and leaves currentLanguageId at that language; and whenever
\* loadLanguage returns true, the grammar active at that moment is the one asked
\* for.
C20_CachedGrammarIsHit ==
    [][/\ loadedLanguages \subseteq loadedLanguages'
       /\ \A s \in Slots :
             /\ (/\ calls[s].pc = "idle"
                 /\ calls'[s].pc # "idle"
                 /\ calls'[s].languageId # None
                 /\ calls'[s].languageId[1] \in loadedLanguages) =>
                    /\ calls'[s].pc # "loading"
                    /\ calls'[s].loads = 0
                    /\ calls'[s].hit
                    /\ calls'[s].ok
                    /\ currentLanguageId' = calls'[s].languageId
             /\ (~calls[s].ok /\ calls'[s].ok) =>
                    currentLanguageId' = calls'[s].languageId
      ]_vars

\* with two grammars cached, a call for one of them was a cache hit that
\* awaited no load and left that language selected
C20_Witness ==
    \E s \in Slots :
        /\ calls[s].hit
        /\ calls[s].ok
        /\ calls[s].loads = 0
        /\ currentLanguageId = calls[s].languageId
        /\ Cardinality(loadedLanguages) >= 2

\* C21: a loadLanguage that returns false changes nothing: it adds no grammar to
\* the cache and leaves the selected grammar as it was, whether the parser was
\* never initialized, the language has no grammar or the grammar load failed;
\* the cache holds only languages of LANGUAGE_CONFIG whose load succeeded.
C21_FailedLoadChangesNothing ==
    [][/\ loadedLanguages' \subseteq (LANGUAGE_CONFIG \cap wasmOk)
       /\ \A s \in Slots :
             (/\ calls[s].pc \in {"idle", "loading"}
              /\ calls'[s].languageId # None
              /\ \/ calls'[s].op = "loadLanguage" /\ calls'[s].pc = "done"
                 \/ calls'[s].op = "chunk" /\ calls'[s].pc = "resume"
              /\ ~calls'[s].ok) =>
                 /\ loadedLanguages' = loadedLanguages
                 /\ currentLanguageId' = currentLanguageId
      ]_vars

\* a loadLanguage whose grammar load failed has returned false while another
\* grammar is cached and selected
C21_Witness ==
    \E s \in Slots :
        /\ calls[s].op = "loadLanguage"
        /\ calls[s].pc = "done"
        /\ calls[s].loads = 1
        /\ ~calls[s].ok
        /\ loadedLanguages # {}
        /\ currentLanguageId # None
        /\ currentLanguageId # calls[s].languageId

\* the sum of the counts of a listing
RECURSIVE SumCounts(_)
SumCounts(listing) ==
    IF listing = {} THEN 0
    ELSE LET e == CHOOSE x \in listing : TRUE
         IN  e.count + SumCounts(listing \ {e})

\* C29: the aggregations agree in every state of the store: the counts of
\* getAllIndexedFiles() add up to getIndexedChunkCount(), every filepath has at
\* most one entry, and each entry's count is the number of chunks
\* getFileChunks(filepath) returns.
C29_AggregationsAgree ==
    tableDefined =>
        /\ SumCounts(IndexedFiles) = IndexedChunkCount
        /\ \A e, f \in IndexedFiles : e.filepath = f.filepath => e = f
        /\ \A e \in IndexedFiles : e.count = Len(FileChunks(e.filepath))

\* C23: clearAllIndexes is not atomic. When the k-th per-id delete is rejected
\* the call throws, the k-1 records deleted before it stay deleted, the records
\* whose turn had not come stay in the table, and no delete is issued after
\* the rejected one.
C23_ClearStopsAtFailure ==
    [][(/\ call'.op = "clearAllIndexes"
        /\ ret'.threw
        /\ \E j \in 1..Len(effects') : effects'[j].op = "table.delete") =>
          LET targets == SelectSeq(table, LAMBDA r : r.filepath # InitPath)
              k == Cardinality({j \in 1..Len(effects') : effects'[j].op = "table.delete"})
          IN  /\ k <= Len(targets)
              /\ \A j \in 1..k : effects'[1 + j] = EffId("table.delete", targets[j].id)
              /\ table' = SelectSeq(table,
                             LAMBDA r : \A j \in 1..(k - 1) : r.id # targets[j].id)
              /\ removed' = {targets[j] : j \in 1..(k - 1)}
      ]_vars

\* a clearAllIndexes threw at its second delete: one record is gone, another
\* indexed record is still there
C23_Witness ==
    /\ call.op = "clearAllIndexes"
    /\ ret.threw
    /\ Cardinality(EffectsOf("table.delete")) = 2
    /\ Cardinality(removed) = 1
    /\ \E i \in 1..Len(table) : table[i].filepath # InitPath

\* the reads and the deletions of the MemoryService
ReadOps == {"getAllIndexedFiles", "getFileChunks", "getFileChunksWithVectors",
            "getIndexedChunkCount"}
DeleteOps == {"clearAllIndexes", "deleteFileIndex", "deleteFolderIndex"}

\* C24: a read whose query fails returns the empty answer (no rows, no
\* entries, the count 0) and does not throw; a deletion whose query or delete
\* fails throws; neither asks the store again after the failure.
C24_FailureContract ==
    LET failed == EffectsOf("console.error") # {}
        asked == EffectsOf("table.query") \cup EffectsOf("table.delete")
    IN  /\ call.op \in ReadOps =>
              /\ ~ret.threw
              /\ failed => ret.rows = <<>> /\ ret.listing = {} /\ ret.count = 0
        /\ call.op \in DeleteOps => (failed <=> ret.threw)
        /\ (call.op \in ReadOps \cup DeleteOps /\ failed) =>
              /\ EffectsOf("console.error") = {Len(effects)}
              /\ Len(effects) - 1 \in asked
              /\ Cardinality(EffectsOf("table.query")) <= 1
              /\ \A i, j \in EffectsOf("table.delete") :
                     effects[i].id = effects[j].id => i = j

\* a count was asked of a table with indexed records, the query failed and the
\* answer was 0
C24_Witness ==
    /\ call.op = "getIndexedChunkCount"
    /\ EffectsOf("console.error") # {}
    /\ ret.count = 0
    /\ ~ret.threw
    /\ IndexedChunkCount > 0

(***************************************************************************)
(* SpecIndex: the "index folder" command of the extension                  *)
(***************************************************************************)
\* the position of the last ch in s, 0 when there is none
LastIndexOf(s, ch) ==
    LET at == {k \in 1..Len(s) : s[k] = ch}
    IN  IF at = {} THEN 0 ELSE CHOOSE k \in at : \A j \in at : j <= k

\* path.basename(file)
Basename(file) == SubSeq(file, LastIndexOf(file, "/") + 1, Len(file))

\* path.extname(file): the base name from its last "." on, "" when it has none
\* or starts with it
Extname(file) ==
    LET base == Basename(file)
        dot == LastIndexOf(base, ".")
    IN  IF dot <= 1 THEN <<>> ELSE SubSeq(base, dot, Len(base))

\* languageMap of the command: extension and language id
languageMap ==
    {<<<<".", "t", "s">>, "typescript">>,
     <<<<".", "t", "s", "x">>, "typescriptreact">>,
     <<<<".", "j", "s">>, "javascript">>,
     <<<<".", "j", "s", "x">>, "javascriptreact">>,
     <<<<".", "p", "y">>, "python">>,
     <<<<".", "c">>, "c">>,
     <<<<".", "c", "p", "p">>, "cpp">>,
     <<<<".", "h">>, "c">>,
     <<<<".", "j", "a", "v", "a">>, "java">>,
     <<<<".", "g", "o">>, "go">>,
     <<<<".", "r", "s">>, "rust">>,
     <<<<".", "r", "b">>, "ruby">>,
     <<<<".", "p", "h", "p">>, "php">>,
     <<<<".", "c", "s">>, "csharp">>,
     <<<<".", "s", "w", "i", "f", "t">>, "swift">>,
     <<<<".", "k", "t">>, "kotlin">>}

\* languageMap[ext] || "plaintext"
LanguageOf(file) ==
    LET hits == {p \in languageMap : p[1] = Extname(file)}
    IN  IF hits = {} THEN "plaintext" ELSE (CHOOSE p \in hits : TRUE)[2]

\* the command's locals: no run in progress
IdleIndexing ==
    [pc |-> "idle", files |-> <<>>, i |-> 0, indexed |-> 0, failed |-> 0,
     totalChunks |-> 0, isCancellationRequested |-> FALSE, content |-> <<>>,
     read |-> <<>>]

\* the command is called without options
NoOptions == [k \in OptionKeys |-> None]

\* the folders the command is run on: none, one, two or all of the files, each
\* with a size
IndexFolders ==
    {FolderOf(present, [i \in 1..Len(FileUniverse) |-> Some(1)]) :
        present \in {{}, {1}, {1, 2}, 1..Len(FileUniverse)}}

\* the command up to the progress callback: it returns when validation is not
\* valid; the user confirms; files are the result of getFilesToIndex
IndexFolderCommand(dir, user) ==
    /\ indexing.pc = "idle"
    /\ tableDefined
    /\ LET validated == ValidateIndexingOperation(dir, user, NoOptions)
           scanned == GetFilesToIndex(dir, user, NoOptions)
       IN  /\ ~validated.threw
           /\ validated.valid
           /\ indexing' = [IdleIndexing EXCEPT !.pc = "loop", !.files = scanned.files]
    /\ UNCHANGED <<lineVars, astVars, scanVars, chunkVars, storeVars, embedVars>>

\* the user presses cancel on the progress notification
CancelRequested ==
    /\ indexing.pc \in {"loop", "read", "add"}
    /\ ~indexing.isCancellationRequested
    /\ indexing' = [indexing EXCEPT !.isCancellationRequested = TRUE]
    /\ UNCHANGED <<lineVars, astVars, scanVars, chunkVars, storeVars, embedVars>>

\* a loop that never looks at the token
LoopStepIgnoringCancel(ix) ==
    IF ix.i >= Len(ix.files) THEN "finished" ELSE "read"

\* the head of the for loop and the check of the token that opens its body
LoopStep(ix) ==
    IF ix.i >= Len(ix.files) THEN "finished"
    ELSE IF ix.isCancellationRequested THEN "cancelled"
    ELSE "read"

IterationStart ==
    /\ indexing.pc = "loop"
    /\ indexing' = [indexing EXCEPT !.pc = LoopStep(indexing)]
    /\ UNCHANGED <<lineVars, astVars, scanVars, chunkVars, storeVars, embedVars>>

\* await vscode.workspace.fs.readFile(file): the text of the file, or a failure
\* that the catch block counts
ReadFile(text, fails) ==
    /\ indexing.pc = "read"
    /\ indexing' =
          IF fails
          THEN [indexing EXCEPT !.pc = "loop", !.i = @ + 1, !.failed = @ + 1,
                                !.read = Append(@, indexing.files[indexing.i + 1])]
          ELSE [indexing EXCEPT !.pc = "add", !.content = text,
                                !.read = Append(@, indexing.files[indexing.i + 1])]
    /\ UNCHANGED <<lineVars, astVars, scanVars, chunkVars, storeVars, embedVars>>

\* await memoryService.addDocument(text, file, languageId) and the counters
\* after it, or the catch block; the pause after every tenth file changes
\* nothing
AddFile(parseThrows, embedFailAt) ==
    /\ indexing.pc = "add"
    /\ LET file == indexing.files[indexing.i + 1]
       IN  AddDocumentCall(indexing.content, file, Some(LanguageOf(file)),
                           parseThrows, embedFailAt)
    /\ indexing' = [indexing EXCEPT
          !.pc = "loop", !.i = @ + 1, !.content = <<>>,
          !.indexed = IF ret'.threw THEN @ ELSE @ + 1,
          !.failed = IF ret'.threw THEN @ + 1 ELSE @,
          !.totalChunks = @ + ret'.chunksCreated]
    /\ UNCHANGED <<lineVars, astVars, scanVars, embedVars>>

\* the warning or the summary is shown and the command returns
IndexSummary ==
    /\ indexing.pc \in {"finished", "cancelled"}
    /\ indexing' = IdleIndexing
    /\ UNCHANGED <<lineVars, astVars, scanVars, chunkVars, storeVars, embedVars>>

InitIndex ==
    /\ LineIdle /\ AstIdle /\ ScanIdle /\ EmbedIdle
    /\ StoreFresh
    /\ wasmOk \in WasmChoices
    /\ indexing = IdleIndexing

NextIndex ==
    \/ MemoryServiceInit
    \/ \E dir \in IndexFolders, user \in UserSettings : IndexFolderCommand(dir, user)
    \/ CancelRequested
    \/ IterationStart
    \/ \E text \in DocTexts, fails \in BOOLEAN : ReadFile(text, fails)
    \/ \E parseThrows \in BOOLEAN, embedFailAt \in 0..1 : AddFile(parseThrows, embedFailAt)
    \/ IndexSummary

\* C22: folder indexing takes the files one at a time in the order of
\* getFilesToIndex; the cancellation flag is looked at only when an iteration
\* starts: a file is read only after a look that found it unset, a look that
\* finds it set ends the loop with no further read or add, and a request made
\* while a file is being read or added does not stop that file; the rows added
\* before stay in the table.
C22_CancelBetweenFiles ==
    [][indexing.pc # "idle" =>
         /\ (indexing.pc # "read" /\ indexing'.pc = "read") =>
                /\ indexing.pc = "loop"
                /\ ~indexing.isCancellationRequested
         /\ (/\ indexing.pc = "loop"
             /\ indexing.isCancellationRequested
             /\ indexing.i < Len(indexing.files)) => indexing'.pc = "cancelled"
         /\ (indexing.pc # "cancelled" /\ indexing'.pc = "cancelled") =>
                indexing.pc = "loop"
         /\ (indexing.pc = "cancelled") => indexing'.pc = "idle" /\ table' = table
         /\ (indexing'.pc # "idle" /\ indexing'.read # indexing.read) =>
                /\ indexing.pc = "read"
                /\ indexing'.read = SubSeq(indexing.files, 1, indexing.i + 1)
         /\ (table' # table) =>
                /\ indexing.pc = "add"
                /\ Len(table') > Len(table)
                /\ SubSeq(table', 1, Len(table)) = table
                /\ \A k \in (Len(table) + 1)..Len(table') :
                       table'[k].filepath = indexing.files[indexing.i + 1]
      ]_vars

\* the loop ended on a cancellation that was requested while the first file
\* was being added: that file's rows are in the table, the second file was
\* never read
C22_Witness ==
    /\ indexing.pc = "cancelled"
    /\ Len(indexing.files) >= 2
    /\ indexing.read = <<indexing.files[1]>>
    /\ indexing.indexed = 1
    /\ \E k \in 1..Len(table) : table[k].filepath = indexing.files[1]
    /\ \A k \in 1..Len(table) : table[k].filepath # indexing.files[2]

(***************************************************************************)
(* SpecEmbed: overlapping getInstance and getEmbedding calls on the        *)
(* EmbeddingService                                                        *)
(***************************************************************************)
\* the calls that can be in flight together
Callers == 1..3

\* a caller with no call in flight; pipe: the pipeline it was handed (0: none)
IdleCaller == [pc |-> "idle", op |-> "", pending |-> 0, pipe |-> 0]

\* getInstance, or getEmbedding up to its `await this.getInstance()`, is
\* called: with an instance it returns it, without one it awaits the import
StartGetInstance(c, op) ==
    /\ embedding.callers[c].pc = "idle"
    /\ embedding' = [embedding EXCEPT !.callers[c] =
          IF embedding.instance # 0
          THEN [IdleCaller EXCEPT !.pc = "have", !.op = op, !.pipe = embedding.instance]
          ELSE [IdleCaller EXCEPT !.pc = "importing", !.op = op]]
    /\ UNCHANGED <<lineVars, astVars, scanVars, chunkVars, storeVars, indexVars>>

\* the import resolved: the call invokes pipeline(...) and awaits it
InvokePipeline(c) ==
    /\ embedding.callers[c].pc = "importing"
    /\ embedding.invoked < MaxPipelines
    /\ embedding' = [embedding EXCEPT
          !.invoked = @ + 1,
          !.callers[c].pc = "constructing",
          !.callers[c].pending = embedding.invoked + 1]
    /\ UNCHANGED <<lineVars, astVars, scanVars, chunkVars, storeVars, indexVars>>

\* pipeline(...) settled: the new pipeline is stored in the static field and
\* returned, or the rejection goes to the caller and the field stays as it is
PipelineSettled(c, fails) ==
    /\ embedding.callers[c].pc = "constructing"
    /\ embedding' =
          IF fails
          THEN [embedding EXCEPT !.callers[c].pc = "done"]
          ELSE [embedding EXCEPT
                   !.instance = embedding.callers[c].pending,
                   !.created = @ + 1,
                   !.callers[c].pc = "have",
                   !.callers[c].pipe = embedding.callers[c].pending]
    /\ UNCHANGED <<lineVars, astVars, scanVars, chunkVars, storeVars, indexVars>>

\* getInstance returns the pipeline; getEmbedding runs it on the text
UsePipeline(c) ==
    /\ embedding.callers[c].pc = "have"
    /\ embedding' = [embedding EXCEPT !.callers[c].pc = "done"]
    /\ UNCHANGED <<lineVars, astVars, scanVars, chunkVars, storeVars, indexVars>>

\* the caller takes the result
ReturnCaller(c) ==
    /\ embedding.callers[c].pc = "done"
    /\ embedding' = [embedding EXCEPT !.callers[c] = IdleCaller]
    /\ UNCHANGED <<lineVars, astVars, scanVars, chunkVars, storeVars, indexVars>>

\* the class is loaded: instance is null
InitEmbed ==
    /\ LineIdle /\ AstIdle /\ ScanIdle /\ ChunkIdle /\ StoreIdle /\ IndexIdle
    /\ embedding = [instance |-> 0, invoked |-> 0, created |-> 0,
                    callers |-> [c \in Callers |-> IdleCaller]]

NextEmbed ==
    \/ \E c \in Callers, op \in {"getInstance", "getEmbedding"} : StartGetInstance(c, op)
    \/ \E c \in Callers : InvokePipeline(c)
    \/ \E c \in Callers, fails \in BOOLEAN : PipelineSettled(c, fails)
    \/ \E c \in Callers : UsePipeline(c)
    \/ \E c \in Callers : ReturnCaller(c)

\* C30: the pipeline is constructed at most once: however getEmbedding and
\* getInstance calls overlap, also when several start before the first
\* construction has finished, the factory produces one pipeline and all callers
\* that hold a pipeline hold the same one.
C30_PipelineConstructedOnce ==
    /\ embedding.created <= 1
    /\ \A c, d \in Callers :
          (embedding.callers[c].pipe # 0 /\ embedding.callers[d].pipe # 0) =>
              embedding.callers[c].pipe = embedding.callers[d].pipe

(***************************************************************************)
(* Specifications                                                          *)
(***************************************************************************)
\* the state after construction of the MemoryService, nothing else started
Init == LineIdle /\ AstIdle /\ ScanIdle /\ IndexIdle /\ EmbedIdle /\ StoreInit

Spec == Init /\ [][Next]_vars

\* a line chunker about to be called
InitLine == AstIdle /\ ScanIdle /\ IndexIdle /\ EmbedIdle /\ ChunkIdle /\ StoreIdle /\ LineInit

SpecLine == InitLine /\ [][LineNext]_vars

\* a structural chunker about to visit a tree
InitAst == LineIdle /\ ScanIdle /\ IndexIdle /\ EmbedIdle /\ ChunkIdle /\ StoreIdle /\ AstInit

SpecAst == InitAst /\ [][AstNext]_vars

\* a folder about to be scanned
InitScan == LineIdle /\ AstIdle /\ ChunkIdle /\ IndexIdle /\ EmbedIdle /\ StoreIdle /\ ScanInit

SpecScan == InitScan /\ [][ScanNext]_vars

\* the MemoryService with its listings and deletions
SpecStore == InitStore /\ [][NextStore]_vars

\* the MemoryService indexing documents
SpecAdd == InitAdd /\ [][NextAdd]_vars

\* the ChunkingService under overlapping calls
SpecChunk == InitChunk /\ [][NextChunk]_vars


\* the extension's folder indexing command on the initialized MemoryService
SpecIndex == InitIndex /\ [][NextIndex]_vars


\* the EmbeddingService under overlapping calls
SpecEmbed == InitEmbed /\ [][NextEmbed]_vars

====
